---- MODULE Spec2Model ----
(***************************************************************************)
(* A model of proxysiphon.proxychimp: the Guts parser of NCDC proxy text   *)
(* files (portion splitter, section indexer, section accessor, data table  *)
(* extraction) and the find_values field extractor.                        *)
(*                                                                         *)
(* Text lines are TLA+ strings.  Python's None is the empty tuple <<>> and *)
(* a present value v is the one-element tuple <<v>>, so that an optional   *)
(* integer can be compared with None.  List indices are Python's (from 0); *)
(* the element with Python index i of a list s is s[i + 1].                *)
(***************************************************************************)
EXTENDS Integers, Sequences, FiniteSets, TLC

VARIABLES
    pc,                 \* position of the program: which step runs next
    lines,              \* Guts.__init__: self.filestr.splitlines()
    n,                  \* _divide_portions: index of the next line of the loop
    dataline_flag,      \* _divide_portions: local dataline_flag
    prev_description,   \* _divide_portions: local prev_description
    description,        \* Guts.description
    data,               \* Guts.data
    data_beginline,     \* Guts.data_beginline (None or an index into lines)
    idx,                \* _write_sectionindex: index of the next description line
    prev_divider,       \* _write_sectionindex: local prev_divider
    all_keys,           \* _write_sectionindex: local all_keys
    all_start,          \* _write_sectionindex: local all_start
    all_stop,           \* _write_sectionindex: local all_stop
    sectionindex,       \* Guts.sectionindex (an insertion-ordered defaultdict)
    ret,                \* outcome of the last method call on the Guts object
    fv,                 \* the activation record of one find_values call
    heap,               \* the other objects of the process, each at its address
    drv                 \* the activation record of one run of the batch driver

vars == <<pc, lines, n, dataline_flag, prev_description, description, data,
          data_beginline, idx, prev_divider, all_keys, all_start, all_stop,
          sectionindex, ret, fv, heap, drv>>

gutsvars == <<pc, lines, n, dataline_flag, prev_description, description, data,
              data_beginline, idx, prev_divider, all_keys, all_start, all_stop,
              sectionindex, ret>>

-----------------------------------------------------------------------------
(* Bounds of the model.                                                    *)

\* longest document (in lines) of the specification Spec
MaxLines == 5

\* longest list of lines find_values is called with in SpecFind
MaxFindLines == 3

\* most lines after the opening of a document of SpecData
MaxTail == 3

\* the occurrences of one section in a document of SpecRecord, at most
MaxRepeat == 2

\* the respects in which a document of SpecRecord is out of order, at most
MaxDefects == 2

\* most lines after the header of a chronology section of SpecChron
MaxChronRows == 2

\* most Guts objects of a process of SpecObjects
MaxObjects == 3

\* most files of the directory the driver of SpecDriver runs on
MaxFiles == 2

-----------------------------------------------------------------------------
(* Python values.                                                          *)

None == <<>>

Some(v) == <<v>>

Min(a, b) == IF a < b THEN a ELSE b

\* s[i] for a Python index i of the string s
CharAt(s, i) == SubSeq(s, i + 1, i + 1)

\* Python: sub in s
Contains(sub, s) ==
    \E i \in 1..(Len(s) - Len(sub) + 1) : SubSeq(s, i, i + Len(sub) - 1) = sub

\* the characters str.strip(), str.lstrip() and str.rstrip() remove
IsSpace(c) == c \in {" ", "\t", "\n", "\r", "\f"}

RECURSIVE rstrip(_)
\* Python: s.rstrip()
rstrip(s) ==
    IF Len(s) > 0 /\ IsSpace(SubSeq(s, Len(s), Len(s)))
    THEN rstrip(SubSeq(s, 1, Len(s) - 1))
    ELSE s

RECURSIVE lstrip(_)
\* Python: s.lstrip()
lstrip(s) ==
    IF Len(s) > 0 /\ IsSpace(SubSeq(s, 1, 1))
    THEN lstrip(SubSeq(s, 2, Len(s)))
    ELSE s

\* Python: s.find(sub) + 1 for a sub that occurs in s (1-based first occurrence)
FirstPos(sub, s) ==
    CHOOSE i \in 1..(Len(s) - Len(sub) + 1) :
        /\ SubSeq(s, i, i + Len(sub) - 1) = sub
        /\ \A j \in 1..(i - 1) : SubSeq(s, j, j + Len(sub) - 1) # sub

RECURSIVE split(_, _, _)
\* Python: s.split(sep, maxsplit), maxsplit = -1 for no limit; sep is not empty
split(s, sep, maxsplit) ==
    IF maxsplit = 0 \/ ~Contains(sep, s)
    THEN <<s>>
    ELSE LET i == FirstPos(sep, s)
         IN  <<SubSeq(s, 1, i - 1)>>
             \o split(SubSeq(s, i + Len(sep), Len(s)), sep,
                      IF maxsplit < 0 THEN maxsplit ELSE maxsplit - 1)

\* Python: xs[start:stop] for start >= 0 and stop None or >= 0
Slice(xs, start, stop) ==
    SubSeq(xs, start + 1, IF stop = None THEN Len(xs) ELSE Min(stop[1], Len(xs)))

\* the decimal digit a one-character string stands for
DigitVal(c) == CHOOSE d \in 0..9 : SubSeq("0123456789", d + 1, d + 1) = c

IsDigit(c) == \E d \in 0..9 : SubSeq("0123456789", d + 1, d + 1) = c

RECURSIVE DigitsVal(_)
\* the number a string of decimal digits stands for
DigitsVal(s) ==
    IF Len(s) = 0 THEN 0
    ELSE 10 * DigitsVal(SubSeq(s, 1, Len(s) - 1)) + DigitVal(SubSeq(s, Len(s), Len(s)))

\* Python: int(s) for a string s without underscores; ValueError when s is no integer
PyInt(s) ==
    LET t == lstrip(rstrip(s))
        signed == Len(t) > 0 /\ SubSeq(t, 1, 1) \in {"+", "-"}
        body == IF signed THEN SubSeq(t, 2, Len(t)) ELSE t
    IN  IF Len(body) > 0 /\ \A i \in 1..Len(body) : IsDigit(SubSeq(body, i, i))
        THEN [kind |-> "value",
              val |-> Some(IF signed /\ SubSeq(t, 1, 1) = "-"
                           THEN 0 - DigitsVal(body) ELSE DigitsVal(body))]
        ELSE [kind |-> "raise", val |-> "ValueError"]

RECURSIVE NatStr(_)
\* Python: str(k) for an integer k >= 0
NatStr(k) ==
    IF k < 10 THEN SubSeq("0123456789", k + 1, k + 1)
    ELSE NatStr(k \div 10) \o SubSeq("0123456789", (k % 10) + 1, (k % 10) + 1)

\* Python: str(i) for an integer i
PyStr(i) == IF i < 0 THEN "-" \o NatStr(0 - i) ELSE NatStr(i)

\* Python: float(s) for a decimal literal s without exponent, as the sign,
\* the whole part and the digits after the point; ValueError otherwise
PyFloat(s) ==
    LET t == lstrip(rstrip(s))
        signed == Len(t) > 0 /\ SubSeq(t, 1, 1) \in {"+", "-"}
        body == IF signed THEN SubSeq(t, 2, Len(t)) ELSE t
        parts == split(body, ".", 1)
        whole == parts[1]
        frac == IF Len(parts) = 2 THEN parts[2] ELSE ""
        Digits(d) == \A i \in 1..Len(d) : IsDigit(SubSeq(d, i, i))
    IN  IF Len(whole) + Len(frac) > 0 /\ Digits(whole) /\ Digits(frac)
        THEN [kind |-> "value",
              val |-> Some([negative |-> signed /\ SubSeq(t, 1, 1) = "-",
                            whole |-> DigitsVal(whole), frac |-> frac])]
        ELSE [kind |-> "raise", val |-> "ValueError"]

-----------------------------------------------------------------------------
(* Module constants of proxychimp.py.                                      *)

DIVIDER == "#------------------------"

DATALINE_TRIGGER == "# Data lines follow (have no #)"

HEADINGS ==
    << "Contribution_Date", "Title", "Investigators",
       "NOTE: Please cite original publication, online resource and date accessed when using this data.",
       "Description and Notes", "Publication", "Funding_Agency",
       "Site Information", "Data_Collection", "Species",
       "Chronology_Information", "Variables", "Data" >>

CHRON_HEADER ==
    "# Labcode\tdepth_top\tdepth_bottom\tmat_dated\t14C_date\t14C_1s_err\tdelta_R\tdelta_R_1s_err\tother_date\tother_1s_err\tother_type\t"

MISSINGVALUE_LABEL == "# Missing Value: "

\* Guts.__init__: self._section_headings
section_headings == [i \in 1..Len(HEADINGS) |-> "# " \o HEADINGS[i]]

-----------------------------------------------------------------------------
(* Guts.__init__ and Guts._divide_portions.                                *)

\* ret before any call: nothing has returned or raised
NoCall == [op |-> "", arg |-> "", kind |-> "none", val |-> None]

\* the state of a Guts object at the call of _divide_portions(lines); pc is p
GutsInit(doc, p) ==
    /\ lines = doc
    /\ pc = p
    /\ n = 0
    /\ dataline_flag = FALSE
    /\ prev_description = TRUE
    /\ description = <<>>
    /\ data = <<>>
    /\ data_beginline = None
    /\ idx = 0
    /\ prev_divider = FALSE
    /\ all_keys = <<>>
    /\ all_start = <<>>
    /\ all_stop = <<>>
    /\ sectionindex = None
    /\ ret = NoCall

\* the test of line 151: the line goes to the description
GoesToDescription(ln, flag) == CharAt(ln, 0) = "#" \/ flag = FALSE

\* a variant of BeginLine: every data line sets data_beginline
BeginLineEveryLine(prev, i, cur) == Some(i)

\* lines 158-159: data_beginline after the data line with index i
BeginLine(prev, i, cur) == IF prev THEN Some(i) ELSE cur

\* one iteration of the loop of _divide_portions, on lines[n]
DivideStep ==
    /\ pc = "divide"
    /\ n < Len(lines)
    /\ LET ln == lines[n + 1] IN
       IF Len(ln) = 0
       THEN \* ln[0] raises IndexError, which leaves __init__
            /\ pc' = "raised"
            /\ ret' = [op |-> "__init__", arg |-> "", kind |-> "raise",
                        val |-> "IndexError"]
            /\ UNCHANGED <<n, dataline_flag, prev_description, description, data,
                           data_beginline>>
       ELSE /\ IF GoesToDescription(ln, dataline_flag)
               THEN /\ description' = Append(description, ln)
                    /\ dataline_flag' = (dataline_flag \/ Contains(DATALINE_TRIGGER, ln))
                    /\ UNCHANGED <<data, data_beginline, prev_description>>
               ELSE /\ data' = Append(data, ln)
                    /\ data_beginline' = BeginLine(prev_description, n, data_beginline)
                    /\ prev_description' = FALSE
                    /\ UNCHANGED <<description, dataline_flag>>
            /\ n' = n + 1
            /\ UNCHANGED <<pc, ret>>
    /\ UNCHANGED <<lines, idx, prev_divider, all_keys, all_start, all_stop,
                   sectionindex, fv, heap, drv>>

\* the loop of _divide_portions is over: __init__ goes on to _write_sectionindex
DivideDone ==
    /\ pc = "divide"
    /\ n = Len(lines)
    /\ pc' = "index"
    /\ UNCHANGED <<lines, n, dataline_flag, prev_description, description, data,
                   data_beginline, idx, prev_divider, all_keys, all_start,
                   all_stop, sectionindex, ret, fv, heap, drv>>

-----------------------------------------------------------------------------
(* Guts._write_sectionindex.                                               *)

\* line 171: any([h == ln.rstrip() for h in self._section_headings])
IsHeading(ln) == \E i \in 1..Len(section_headings) : section_headings[i] = rstrip(ln)

\* line 172: key = ln[1:].rstrip().lstrip()
HeadingKey(ln) == lstrip(rstrip(SubSeq(ln, 2, Len(ln))))

\* a variant of ClosingStop: the section is closed one line after the next heading
ClosingStopLate(i) == Some(i + 1)

\* line 177: the stop that closes the section open before the heading at index i
ClosingStop(i) == Some(i - 1)

\* a variant of IsDivider: only the divider line itself sets prev_divider
IsDividerExact(ln) == ln = DIVIDER

\* line 182: the line sets prev_divider
IsDivider(ln) == Contains(DIVIDER, ln)

\* one iteration of the loop of _write_sectionindex, on description[idx]
IndexStep ==
    /\ pc = "index"
    /\ idx < Len(description)
    /\ LET ln == description[idx + 1]
           opens == prev_divider /\ IsHeading(ln)
       IN  /\ all_keys' = IF opens THEN Append(all_keys, HeadingKey(ln)) ELSE all_keys
           /\ all_stop' = IF opens /\ Len(all_start) > 0
                          THEN Append(all_stop, ClosingStop(idx))
                          ELSE all_stop
           /\ all_start' = IF opens THEN Append(all_start, idx) ELSE all_start
           /\ prev_divider' = IF IsDivider(ln) THEN TRUE
                              ELSE IF opens THEN FALSE ELSE prev_divider
    /\ idx' = idx + 1
    /\ UNCHANGED <<pc, lines, n, dataline_flag, prev_description, description,
                   data, data_beginline, sectionindex, ret, fv, heap, drv>>

\* a variant of FinalStop: the last section is closed like the others, one line early
FinalStopLastLine == Some(Len(description) - 1)

\* line 184: the stop appended after the loop
FinalStop == data_beginline

\* a variant of FrozenFactory: the defaultdict keeps its factory
FrozenFactoryKept == "list"

\* line 189: section_map.default_factory once the map is built
FrozenFactory == "None"

\* section_map[k].append(r) on a defaultdict(list) that keeps insertion order
MapAppend(m, k, r) ==
    IF k \in DOMAIN m.ranges
    THEN [m EXCEPT !.ranges[k] = Append(@, r)]
    ELSE [m EXCEPT !.keys = Append(@, k), !.ranges = (k :> <<r>>) @@ @]

RECURSIVE ZipInto(_, _, _, _, _)
\* lines 187-188: the loop over zip(all_keys, all_start, all_stop), from triple i
ZipInto(m, ks, starts, stops, i) ==
    IF i > Min(Len(ks), Min(Len(starts), Len(stops)))
    THEN m
    ELSE ZipInto(MapAppend(m, ks[i], <<starts[i], stops[i]>>), ks, starts, stops, i + 1)

\* collections.defaultdict(list), empty
EmptyMap == [keys |-> <<>>, ranges |-> <<>>, default_factory |-> "list"]

\* lines 184-190: close the last section and build self.sectionindex
IndexDone ==
    /\ pc = "index"
    /\ idx = Len(description)
    /\ all_stop' = Append(all_stop, FinalStop)
    /\ sectionindex' =
          [ZipInto(EmptyMap, all_keys, all_start, all_stop', 1)
              EXCEPT !.default_factory = FrozenFactory]
    /\ pc' = "ready"
    /\ UNCHANGED <<lines, n, dataline_flag, prev_description, description, data,
                   data_beginline, idx, prev_divider, all_keys, all_start, ret, fv, heap, drv>>

-----------------------------------------------------------------------------
(* Guts.pull_section.                                                      *)

\* a missing key of a defaultdict(list) is inserted with an empty list
MapAppendNew(m, k) == [m EXCEPT !.keys = Append(@, k), !.ranges = (k :> <<>>) @@ @]

\* self.sectionindex[section]: the dict after the lookup, and its outcome
Lookup(m, section) ==
    IF section \in DOMAIN m.ranges
    THEN [map |-> m, kind |-> "value", val |-> m.ranges[section]]
    ELSE IF m.default_factory = "None"
    THEN [map |-> m, kind |-> "raise", val |-> "KeyError"]
    ELSE [map |-> MapAppendNew(m, section), kind |-> "value", val |-> <<>>]

\* lines 194-198: pull_section(section) of an object with the description desc
PullSectionIn(desc, m, section) ==
    LET r == Lookup(m, section) IN
    IF r.kind = "raise"
    THEN r
    ELSE [r EXCEPT !.val =
             [i \in 1..Len(r.val) |-> Slice(desc, r.val[i][1], r.val[i][2])]]

\* lines 194-198: the outcome of pull_section(section)
PullSection(m, section) == PullSectionIn(description, m, section)

\* g.pull_section(section)
PullSectionCall(section) ==
    /\ pc = "ready"
    /\ LET r == PullSection(sectionindex, section) IN
       /\ sectionindex' = r.map
       /\ ret' = [op |-> "pull_section", arg |-> section, kind |-> r.kind, val |-> r.val]
    /\ UNCHANGED <<pc, lines, n, dataline_flag, prev_description, description, data,
                   data_beginline, idx, prev_divider, all_keys, all_start, all_stop, fv, heap, drv>>

-----------------------------------------------------------------------------
(* Guts.guess_missingvalues and Guts.yank_data_df.  A table read by        *)
(* pandas.read_table is [columns, rows]: the header fields, and for each   *)
(* later line its fields, a field being None where pandas reads a missing  *)
(* value and <<text>> elsewhere.  The model reads rectangular tables: a    *)
(* row has as many fields as the header, and no field is quoted.           *)

\* pandas: the strings read_table takes for missing values by default
PandasDefaultNA ==
    { "", "#N/A", "#N/A N/A", "#NA", "-1.#IND", "-1.#QNAN", "-NaN", "-nan",
      "1.#IND", "1.#QNAN", "N/A", "NA", "NULL", "NaN", "n/a", "nan", "null" }

\* pandas: the strings that na_values adds for one of its entries x, which
\* are str(x) and, when x is an integer, both spellings 'x' and 'x.0' of it
StringifyNa(x) ==
    IF PyInt(x).kind = "value" /\ x = lstrip(rstrip(x))
    THEN { x, PyStr(PyInt(x).val[1]), PyStr(PyInt(x).val[1]) \o ".0" }
    ELSE { x }

\* pandas: the field text is a missing value under na_values (None, one
\* string, or a list of entries written as strings)
PandasIsNA(text, na_values) ==
    \/ text \in PandasDefaultNA
    \/ \E i \in 1..Len(na_values) : text \in StringifyNa(na_values[i])

\* pandas.read_table(BytesIO('\n'.join(ls)), na_values=na_values), sep = '\t';
\* a line with fewer fields than the header is filled up with missing values
ReadTable(ls, na_values) ==
    LET filled == SelectSeq(ls, LAMBDA l : l # "")   \* skip_blank_lines
        columns == split(filled[1], "\t", -1)
        Field(t) == IF PandasIsNA(t, na_values) THEN None ELSE Some(t)
        Row(l) == LET f == split(l, "\t", -1) IN
                  [j \in 1..Len(columns) |-> IF j <= Len(f) THEN Field(f[j]) ELSE None]
        Wide(l) == Len(split(l, "\t", -1)) > Len(columns)
    IN  IF filled = <<>>
        THEN [kind |-> "raise", val |-> "EmptyDataError"]
        ELSE IF \E i \in 2..Len(filled) : Wide(filled[i])
        THEN [kind |-> "raise", val |-> "ParserError"]
        ELSE [kind |-> "value",
              val |-> [columns |-> columns,
                       rows |-> [i \in 1..(Len(filled) - 1) |-> Row(filled[i + 1])]]]

\* a variant of GuessOut: the first directive is kept
GuessOutFirstWins(out, ln) ==
    IF out = None THEN Some(split(ln, MISSINGVALUE_LABEL, -1)[2]) ELSE out

\* line 231: out after a line that holds the label
GuessOut(out, ln) == Some(split(ln, MISSINGVALUE_LABEL, -1)[2])

RECURSIVE GuessLoop(_, _, _)
\* lines 228-231: the loop over the section, from its line i, with out so far
GuessLoop(section, i, out) ==
    IF i > Len(section) THEN out
    ELSE GuessLoop(section, i + 1,
                   IF Contains(MISSINGVALUE_LABEL, section[i])
                   THEN GuessOut(out, section[i]) ELSE out)

\* lines 227-233: the dict after guess_missingvalues() and its outcome
GuessMissingvalues(m) ==
    LET r == PullSection(m, "Data") IN
    IF r.kind = "raise" THEN r
    ELSE IF Len(r.val) = 0
    THEN [map |-> r.map, kind |-> "raise", val |-> "IndexError"]
    ELSE [map |-> r.map, kind |-> "value", val |-> GuessLoop(r.val[1], 1, None)]

\* line 209: the na_values handed to read_table
NaValues(missingvalues) == missingvalues

\* lines 206-211: the dict after yank_data_df() and its outcome
YankDataDf(m) ==
    LET ls == [i \in 1..Len(data) |-> rstrip(data[i])]
        g == GuessMissingvalues(m)
    IN  IF g.kind = "raise" THEN g
        ELSE LET df == ReadTable(ls, NaValues(g.val))
             IN  [map |-> g.map, kind |-> df.kind, val |-> df.val]

\* g.guess_missingvalues()
GuessMissingvaluesCall ==
    /\ pc = "ready"
    /\ LET r == GuessMissingvalues(sectionindex) IN
       /\ sectionindex' = r.map
       /\ ret' = [op |-> "guess_missingvalues", arg |-> "", kind |-> r.kind,
                  val |-> r.val]
    /\ UNCHANGED <<pc, lines, n, dataline_flag, prev_description, description, data,
                   data_beginline, idx, prev_divider, all_keys, all_start, all_stop, fv, heap, drv>>

\* g.yank_data_df()
YankDataDfCall ==
    /\ pc = "ready"
    /\ LET r == YankDataDf(sectionindex) IN
       /\ sectionindex' = r.map
       /\ ret' = [op |-> "yank_data_df", arg |-> "", kind |-> r.kind, val |-> r.val]
    /\ UNCHANGED <<pc, lines, n, dataline_flag, prev_description, description, data,
                   data_beginline, idx, prev_divider, all_keys, all_start, all_stop, fv, heap, drv>>

-----------------------------------------------------------------------------
(* find_values(x, k, sep, fun).  fv is the activation record of the call:  *)
(* its arguments, the loop index i, the local out, the arguments fun has   *)
(* been called with so far (calls) and the outcome of the call (ret).      *)

\* the batch driver is not running
DrvIdle == [pc |-> "idle"]

\* find_values is not running
FvIdle == [pc |-> "idle"]

\* fun(arg) for the converters str, float and int; int(None) and
\* float(None) raise TypeError, str(None) is 'None'
CallFun(fun, arg) ==
    IF fun = "str"
    THEN [kind |-> "value", val |-> Some(IF arg = None THEN "None" ELSE arg[1])]
    ELSE IF arg = None THEN [kind |-> "raise", val |-> "TypeError"]
    ELSE IF fun = "float" THEN PyFloat(arg[1])
    ELSE PyInt(arg[1])

\* the state of a call find_values(x, k, sep, fun) at its first statement
FvInit(x, k, sep, fun) ==
    [pc |-> "loop", x |-> x, k |-> k, sep |-> sep, fun |-> fun, i |-> 0,
     out |-> None, calls |-> <<>>, ret |-> [kind |-> "none", val |-> None]]

\* line 107: the line is searched for a value
FvMatches(l, k, sep) == Contains(k, l) /\ Contains(sep, l)

\* line 108: val = l.split(sep, maxsplit=1)[1:][0].lstrip().rstrip()
FvValue(l, sep) == rstrip(lstrip(split(l, sep, 1)[2]))

\* a variant of FvCandidate: the first non-empty value is kept
FvCandidateFirstWins(out, val) == IF val # "" /\ out = None THEN Some(val) ELSE out

\* lines 109-110: out after a matching line with the value val
FvCandidate(out, val) == IF val # "" THEN Some(val) ELSE out

\* one iteration of the loop of find_values, on x[i]
FvStep ==
    /\ fv.pc = "loop"
    /\ fv.i < Len(fv.x)
    /\ LET l == fv.x[fv.i + 1] IN
       fv' = [fv EXCEPT
                !.i = @ + 1,
                !.out = IF FvMatches(l, fv.k, fv.sep)
                        THEN FvCandidate(@, FvValue(l, fv.sep))
                        ELSE @]
    /\ UNCHANGED <<gutsvars, heap, drv>>

\* a variant of FvConverts: the converter is called on None too
FvConvertsNone(fun, out) == fun # "None"

\* line 111: the converter is called
FvConverts(fun, out) == fun # "None" /\ out # None

\* lines 111-113: the converter, if any, and the return
FvReturn ==
    /\ fv.pc = "loop"
    /\ fv.i = Len(fv.x)
    /\ fv' = [fv EXCEPT
                !.pc = "done",
                !.calls = IF FvConverts(fv.fun, fv.out) THEN Append(@, fv.out) ELSE @,
                !.ret = IF FvConverts(fv.fun, fv.out)
                        THEN CallFun(fv.fun, fv.out)
                        ELSE [kind |-> "value", val |-> fv.out]]
    /\ UNCHANGED <<gutsvars, heap, drv>>

-----------------------------------------------------------------------------
(* find_values and Guts.__init__ as functions of their arguments: the      *)
(* loops above run to their end.  The methods that read several sections   *)
(* call them as such.                                                      *)

RECURSIVE FindLoop(_, _, _, _, _)
\* lines 105-110: out after the loop of find_values over x, from x[i] on
FindLoop(x, i, k, sep, out) ==
    IF i >= Len(x) THEN out
    ELSE FindLoop(x, i + 1, k, sep,
                  IF FvMatches(x[i + 1], k, sep)
                  THEN FvCandidate(out, FvValue(x[i + 1], sep))
                  ELSE out)

\* lines 111-113: the outcome of find_values with out after its loop
FindReturn(fun, out) ==
    IF FvConverts(fun, out) THEN CallFun(fun, out) ELSE [kind |-> "value", val |-> out]

\* lines 105-113: the outcome of find_values(x, k, sep, fun)
FindValues(x, k, sep, fun) == FindReturn(fun, FindLoop(x, 0, k, sep, None))

RECURSIVE DivideLoop(_, _, _)
\* lines 146-161: the locals and attributes after the loop of
\* _divide_portions over doc, from doc[i] on; raised when ln[0] fails
DivideLoop(doc, i, s) ==
    IF i >= Len(doc) \/ s.raised THEN s
    ELSE DivideLoop(doc, i + 1,
            IF Len(doc[i + 1]) = 0 THEN [s EXCEPT !.raised = TRUE]
            ELSE IF GoesToDescription(doc[i + 1], s.dataline_flag)
            THEN [s EXCEPT !.n = i + 1,
                           !.description = Append(@, doc[i + 1]),
                           !.dataline_flag = (@ \/ Contains(DATALINE_TRIGGER, doc[i + 1]))]
            ELSE [s EXCEPT !.n = i + 1,
                           !.data = Append(@, doc[i + 1]),
                           !.data_beginline = BeginLine(s.prev_description, i, @),
                           !.prev_description = FALSE])

\* lines 171-182: the locals of _write_sectionindex after the line ln at
\* the index s.idx, which opens a section when opens
IndexLine(s, ln, opens) ==
    [idx |-> s.idx + 1,
     all_keys |-> IF opens THEN Append(s.all_keys, HeadingKey(ln)) ELSE s.all_keys,
     all_stop |-> IF opens /\ Len(s.all_start) > 0
                  THEN Append(s.all_stop, ClosingStop(s.idx))
                  ELSE s.all_stop,
     all_start |-> IF opens THEN Append(s.all_start, s.idx) ELSE s.all_start,
     prev_divider |-> IF IsDivider(ln) THEN TRUE
                      ELSE IF opens THEN FALSE ELSE s.prev_divider]

RECURSIVE IndexLoop(_, _)
\* lines 164-182: the locals after the loop of _write_sectionindex over
\* desc, from desc[s.idx] on
IndexLoop(desc, s) ==
    IF s.idx >= Len(desc) THEN s
    ELSE IndexLoop(desc,
            IndexLine(s, desc[s.idx + 1], s.prev_divider /\ IsHeading(desc[s.idx + 1])))

\* lines 184-190: the section index of the keys and starts of x, with stops
SectionMap(x, stops) ==
    [ZipInto(EmptyMap, x.all_keys, x.all_start, stops, 1)
        EXCEPT !.default_factory = FrozenFactory]

\* lines 141-143: the object after _write_sectionindex, d being the outcome
\* of _divide_portions and x the locals after the loop over its description
Indexed(d, x) ==
    [raised |-> d.raised, n |-> d.n, dataline_flag |-> d.dataline_flag,
     prev_description |-> d.prev_description,
     description |-> d.description, data |-> d.data,
     data_beginline |-> d.data_beginline, idx |-> x.idx,
     prev_divider |-> x.prev_divider, all_keys |-> x.all_keys,
     all_start |-> x.all_start,
     all_stop |-> IF d.raised THEN <<>> ELSE Append(x.all_stop, d.data_beginline),
     sectionindex |-> IF d.raised THEN None
                      ELSE SectionMap(x, Append(x.all_stop, d.data_beginline))]

\* the locals of _write_sectionindex before its loop
IndexStart ==
    [idx |-> 0, all_keys |-> <<>>, all_start |-> <<>>, all_stop |-> <<>>,
     prev_divider |-> FALSE]

\* lines 140-143: the object after _divide_portions with the outcome d; when
\* it raised, _write_sectionindex is not called
Divided2Indexed(d) ==
    Indexed(d, IF d.raised THEN IndexStart ELSE IndexLoop(d.description, IndexStart))

\* a variant of NewList: the list of the object built last is used again
NewListShared(others) ==
    IF others = <<>> THEN <<>> ELSE others[Len(others)].g.description

\* lines 137-138: [], a list of its own for the object under construction,
\* whatever objects the process holds
NewList(others) == <<>>

\* lines 120-143: the object Guts(doc) builds from the lines doc in a
\* process that holds the objects others, with the locals of its two loops;
\* raised when _divide_portions raises IndexError
GutsAmong(doc, others) ==
    Divided2Indexed(
        DivideLoop(doc, 0,
            [raised |-> FALSE, n |-> 0, dataline_flag |-> FALSE,
             prev_description |-> TRUE, description |-> NewList(others),
             data |-> NewList(others), data_beginline |-> None]))

\* lines 120-143: the object Guts(doc) builds from the lines doc
GutsOf(doc) == GutsAmong(doc, <<>>)

\* the object becomes g
Becomes(g) ==
    /\ pc' = IF g.raised THEN "raised" ELSE "ready"
    /\ ret' = IF g.raised
              THEN [op |-> "__init__", arg |-> "", kind |-> "raise",
                    val |-> "IndexError"]
              ELSE ret
    /\ n' = g.n
    /\ dataline_flag' = g.dataline_flag
    /\ prev_description' = g.prev_description
    /\ description' = g.description
    /\ data' = g.data
    /\ data_beginline' = g.data_beginline
    /\ idx' = g.idx
    /\ prev_divider' = g.prev_divider
    /\ all_keys' = g.all_keys
    /\ all_start' = g.all_start
    /\ all_stop' = g.all_stop
    /\ sectionindex' = g.sectionindex

\* g = Guts(lines), the whole constructor
Construct ==
    /\ pc = "new"
    /\ Becomes(GutsAmong(lines, heap))
    /\ UNCHANGED <<lines, fv, heap, drv>>

\* the method op, called with arg on the object that is ready, returns or
\* raises as r says and leaves the dict r.map
Returns(op, arg, r) ==
    /\ pc = "ready"
    /\ sectionindex' = r.map
    /\ ret' = [op |-> op, arg |-> arg, kind |-> r.kind, val |-> r.val]
    /\ UNCHANGED <<pc, lines, n, dataline_flag, prev_description, description, data,
                   data_beginline, idx, prev_divider, all_keys, all_start, all_stop, fv, heap, drv>>

-----------------------------------------------------------------------------
(* Guts.yank_chron_df.                                                     *)

\* a variant of ChronMissingvalues: only NaN is a missing value by default
ChronMissingvaluesNaNOnly(missingvalues) ==
    IF missingvalues = None THEN <<"NaN">> ELSE missingvalues

\* lines 215-216: the missing values of the chronology table, [-999, 'NaN']
\* by default
ChronMissingvalues(missingvalues) ==
    IF missingvalues = None THEN <<"-999", "NaN">> ELSE missingvalues

\* Python: xs.index(x), ValueError when x is not in xs
ListIndex(xs, x) ==
    IF \A i \in 1..Len(xs) : xs[i] # x
    THEN [kind |-> "raise", val |-> "ValueError"]
    ELSE [kind |-> "value",
          val |-> (CHOOSE i \in 1..Len(xs) :
                      xs[i] = x /\ \A j \in 1..(i - 1) : xs[j] # x) - 1]

\* a variant of ChronClean: the line keeps its first two characters
ChronCleanWholeLine(x) == rstrip(x)

\* line 220: x[2:].rstrip()
ChronClean(x) == rstrip(SubSeq(x, 3, Len(x)))

\* lines 219-222: the table read from g_chrond
ChronTable(g_chrond, missingvalues) ==
    ReadTable([i \in 1..Len(g_chrond) |-> ChronClean(g_chrond[i])],
              ChronMissingvalues(missingvalues))

\* lines 218-223: the outcome for the section and the start_idx that
\* section.index(CHRON_HEADER) gave
ChronFrom(section, start_idx, missingvalues) ==
    IF start_idx.kind = "raise" THEN start_idx
    ELSE ChronTable(Slice(section, start_idx.val, None), missingvalues)

\* lines 217-223: the outcome when pull_section has returned the sections
ChronOf(sections, missingvalues) ==
    IF Len(sections) = 0 THEN [kind |-> "raise", val |-> "IndexError"]
    ELSE ChronFrom(sections[1], ListIndex(sections[1], CHRON_HEADER), missingvalues)

\* the outcome out of a method that has read the section(s) sec: the
\* exception of pull_section, or out with the dict after pull_section
After(sec, out) ==
    IF sec.kind = "raise" THEN sec
    ELSE [map |-> sec.map, kind |-> out.kind, val |-> out.val]

\* lines 215-223: the dict after yank_chron_df(section_name, missingvalues)
\* on an object with the description desc, and its outcome
YankChronDfOutcome(r, missingvalues) ==
    After(r, IF r.kind = "raise" THEN r ELSE ChronOf(r.val, missingvalues))

\* lines 213-223: yank_chron_df(section_name, missingvalues) on an object
\* with the description desc and the dict m
YankChronDf(desc, m, section_name, missingvalues) ==
    YankChronDfOutcome(PullSectionIn(desc, m, section_name), missingvalues)

\* g.yank_chron_df()
YankChronDfCall ==
    Returns("yank_chron_df", "",
            YankChronDf(description, sectionindex, "Chronology_Information", None))

-----------------------------------------------------------------------------
(* The yank_* methods that read the fields of a section.  A dict of fields *)
(* is a function from its keys; each target key is the triple of the dict  *)
(* key, the source key and the converter.                                  *)

\* lines 313, 348, 372, 433 and 473: sections[0], with the dict r.map
FirstOf(r) ==
    IF Len(r.val) = 0
    THEN [map |-> r.map, kind |-> "raise", val |-> "IndexError"]
    ELSE [map |-> r.map, kind |-> "value", val |-> r.val[1]]

\* a variant of OnlySection: the first of several occurrences is taken
OnlySectionFirst(r) == IF r.kind = "raise" THEN r ELSE FirstOf(r)

\* lines 312-313, 347-348, 371-372, 432-433 and 472-473: the section of
\* which no second occurrence may exist, r being the outcome of pull_section
OnlySection(r) ==
    IF r.kind = "raise" THEN r
    ELSE IF ~(Len(r.val) < 2)
    THEN [map |-> r.map, kind |-> "raise", val |-> "AssertionError"]
    ELSE FirstOf(r)

\* lines 311-313, 346-348, 370-372, 431-433 and 471-473
SingleSection(m, target_section) == OnlySection(PullSection(m, target_section))

\* the dict of the values found for target_keys, or the exception of the
\* first converter that raised
DictOf(target_keys, found) ==
    IF \E i \in 1..Len(target_keys) : found[i].kind = "raise"
    THEN [kind |-> "raise",
          val |-> found[CHOOSE i \in 1..Len(target_keys) :
                           /\ found[i].kind = "raise"
                           /\ \A j \in 1..(i - 1) : found[j].kind # "raise"].val]
    ELSE [kind |-> "value",
          val |-> [k \in { target_keys[i][1] : i \in 1..Len(target_keys) } |->
                      found[CHOOSE i \in 1..Len(target_keys) : target_keys[i][1] = k].val]]

\* lines 350-351, 412-413 and 475-476: the dict of the values found in
\* section for target_keys; the first converter that raises ends the loop
FieldsOf(section, target_keys) ==
    DictOf(target_keys,
           [i \in 1..Len(target_keys) |->
               FindValues(section, target_keys[i][2], ":", target_keys[i][3])])

\* lines 350-353 and 475-478: the fields of the section sec
FieldsIn(sec, target_keys) ==
    After(sec, IF sec.kind = "raise" THEN sec ELSE FieldsOf(sec.val, target_keys))

\* lines 315-321 and 374-380: the value of the one key of the section sec
ValueIn(sec, target_key) ==
    After(sec, IF sec.kind = "raise" THEN sec
               ELSE FindValues(sec.val, target_key, ":", "str"))

\* lines 307-309: the heading of the section with the source URL
SourceUrlSection ==
    "NOTE: Please cite original publication, online resource and date accessed when using this data."

\* lines 311-321: the dict after yank_original_source_url() and its outcome
YankOriginalSourceUrl(m) ==
    ValueIn(SingleSection(m, SourceUrlSection), "Original_Source_URL:")

\* lines 337-343
DataCollectionKeys ==
    << <<"collection_name", "Collection_Name:", "str">>,
       <<"first_year", "First_Year:", "float">>,
       <<"last_year", "Last_Year:", "float">>,
       <<"time_unit", "Time_Unit:", "str">>,
       <<"core_length", "Core_Length:", "str">>,
       <<"notes", "Notes:", "str">>,
       <<"collection_year", "Collection_Year:", "int">> >>

\* lines 335-353: the dict after yank_data_collection() and its outcome
YankDataCollection(m) ==
    FieldsIn(SingleSection(m, "Data_Collection"), DataCollectionKeys)

\* lines 367-380: the dict after yank_description_and_notes() and its outcome
YankDescriptionAndNotes(m) ==
    ValueIn(SingleSection(m, "Description and Notes"), "Description:")

\* lines 391-403
PublicationKeys ==
    << <<"authors", "# Authors:", "str">>,
       <<"published_date_or_year", "# Published_Date_or_Year:", "int">>,
       <<"published_title", "# Published_Title:", "str">>,
       <<"journal_name", "# Journal_Name:", "str">>,
       <<"volume", "# Volume:", "str">>,
       <<"edition", "# Edition:", "str">>,
       <<"issue", "# Issue:", "str">>,
       <<"pages", "# Pages:", "str">>,
       <<"report_number", "# Report Number:", "str">>,
       <<"doi", "# DOI:", "str">>,
       <<"online_resource", "# Online_Resource:", "str">>,
       <<"full_citation", "# Full_Citation:", "str">>,
       <<"abstract", "# Abstract:", "str">> >>

\* a variant of PublicationSections: only the first occurrence is read
PublicationSectionsFirst(sections) == SubSeq(sections, 1, 1)

\* line 409: the occurrences the loop of yank_publication goes over
PublicationSections(sections) == sections

\* lines 406-416: the list of the dicts pubs, or the exception of the first
\* of them that is one
ListOf(pubs) ==
    IF \E i \in 1..Len(pubs) : pubs[i].kind = "raise"
    THEN [kind |-> "raise",
          val |-> pubs[CHOOSE i \in 1..Len(pubs) :
                          /\ pubs[i].kind = "raise"
                          /\ \A j \in 1..(i - 1) : pubs[j].kind # "raise"].val]
    ELSE [kind |-> "value", val |-> [i \in 1..Len(pubs) |-> pubs[i].val]]

\* lines 409-414: the dicts of the sections
PublicationsOf(sections) ==
    ListOf([i \in 1..Len(sections) |-> FieldsOf(sections[i], PublicationKeys)])

\* lines 406-416: the outcome when pull_section has the outcome r
YankPublicationOutcome(r) ==
    After(r, IF r.kind = "raise" THEN r
             ELSE PublicationsOf(PublicationSections(r.val)))

\* lines 389-416: the dict after yank_publication() and its outcome
YankPublication(m) == YankPublicationOutcome(PullSection(m, "Publication"))

\* lines 442-443: out with the variable of the two parts of a '## ' line
WithVariable(out, parts) ==
    [k \in DOMAIN out \cup {parts[1]} |->
        IF k = parts[1] THEN split(parts[2], ",", -1) ELSE out[k]]

RECURSIVE VariablesLoop(_, _, _)
\* lines 436-443: out after the loop of yank_variables over section, from
\* its line i on; ValueError when a '## ' line does not hold exactly one tab
VariablesLoop(section, i, out) ==
    IF i > Len(section) THEN [kind |-> "value", val |-> out]
    ELSE IF SubSeq(section[i], 1, Min(3, Len(section[i]))) # "## "
    THEN VariablesLoop(section, i + 1, out)
    ELSE IF Len(split(SubSeq(section[i], 4, Len(section[i])), "\t", -1)) # 2
    THEN [kind |-> "raise", val |-> "ValueError"]
    ELSE VariablesLoop(section, i + 1,
            WithVariable(out, split(SubSeq(section[i], 4, Len(section[i])), "\t", -1)))

\* lines 435-445: the variables of the section sec
VariablesIn(sec) ==
    After(sec, IF sec.kind = "raise" THEN sec ELSE VariablesLoop(sec.val, 1, <<>>))

\* lines 430-445: the dict after yank_variables() and its outcome
YankVariables(m) == VariablesIn(SingleSection(m, "Variables"))

\* lines 461-468
SiteInformationKeys ==
    << <<"site_name", "# Site_Name:", "str">>,
       <<"location", "# Location:", "str">>,
       <<"country", "# Country:", "str">>,
       <<"northernmost_latitude", "# Northernmost_Latitude:", "float">>,
       <<"southernmost_latitude", "# Southernmost_Latitude:", "float">>,
       <<"easternmost_longitude", "# Easternmost_Longitude:", "float">>,
       <<"westernmost_longitude", "# Westernmost_Longitude:", "float">>,
       <<"elevation", "# Elevation:", "float">> >>

\* lines 459-478: the dict after yank_site_information() and its outcome
YankSiteInformation(m) ==
    FieldsIn(SingleSection(m, "Site Information"), SiteInformationKeys)

\* g.yank_publication()
YankPublicationCall == Returns("yank_publication", "", YankPublication(sectionindex))

\* g.yank_site_information()
YankSiteInformationCall ==
    Returns("yank_site_information", "", YankSiteInformation(sectionindex))

\* g.yank_data_collection()
YankDataCollectionCall ==
    Returns("yank_data_collection", "", YankDataCollection(sectionindex))

-----------------------------------------------------------------------------
(* Guts.to_ncdcrecord.                                                     *)

\* records.py, lines 96-106: the fields of VariableInfo, all of them required
VariableInfoFields ==
    <<"what", "material", "error", "units", "seasonality", "archive", "detail",
      "method", "datatype">>

\* lines 490-493: VariableInfo(*v) for every variable; TypeError when some v
\* has not one component for each field
VariableInfos(file_vars) ==
    IF \E k \in DOMAIN file_vars : Len(file_vars[k]) # Len(VariableInfoFields)
    THEN [kind |-> "raise", val |-> "TypeError"]
    ELSE [kind |-> "value", val |-> file_vars]

\* the outcome d of yank_data_df, a missing Data section giving no table
WithoutKeyError(d) ==
    IF d.kind = "raise" /\ d.val = "KeyError"
    THEN [map |-> d.map, kind |-> "value", val |-> None]
    ELSE d

\* a variant of RecordData: a record without a Data section gets no table
RecordDataOptional(m) == WithoutKeyError(YankDataDf(m))

\* line 483: the data table of the record
RecordData(m) == YankDataDf(m)

\* lines 495-503: the record of the eight parts
Record(chron, d, d_collection, descr, orig_url, pubs, site_info, variables) ==
    [chronology_information |-> chron.val,
     data |-> d.val,
     data_collection |-> d_collection.val,
     description |-> descr.val,
     original_source_url |-> orig_url.val,
     publication |-> pubs.val,
     site_information |-> site_info.val,
     variables |-> variables.val]

\* lines 482-503: the outcome of to_ncdcrecord for the outcomes of its
\* steps: the record, or the first exception
Assemble(chron, d, d_collection, descr, orig_url, pubs, site_info, file_vars, variables) ==
    IF chron.kind = "raise" THEN chron
    ELSE IF d.kind = "raise" THEN d
    ELSE IF d_collection.kind = "raise" THEN d_collection
    ELSE IF descr.kind = "raise" THEN descr
    ELSE IF orig_url.kind = "raise" THEN orig_url
    ELSE IF pubs.kind = "raise" THEN pubs
    ELSE IF site_info.kind = "raise" THEN [site_info EXCEPT !.map = pubs.map]
    ELSE IF file_vars.kind = "raise" THEN [file_vars EXCEPT !.map = pubs.map]
    ELSE IF variables.kind = "raise"
    THEN [map |-> pubs.map, kind |-> "raise", val |-> variables.val]
    ELSE [map |-> pubs.map, kind |-> "value",
          val |-> Record(chron, d, d_collection, descr, orig_url, pubs, site_info,
                         variables)]

\* the outcome of VariableInfo(*v) for the outcome of yank_variables
VariablesOf(file_vars) ==
    IF file_vars.kind = "raise" THEN file_vars ELSE VariableInfos(file_vars.val)

\* lines 482-503: the dict after to_ncdcrecord() and its outcome.  A step
\* that returns leaves the dict as it is or adds a key no later step reads,
\* so every step is taken on the dict m
ToNcdcrecord(m) ==
    Assemble(YankChronDf(description, m, "Chronology_Information", None),
             RecordData(m),
             YankDataCollection(m),
             YankDescriptionAndNotes(m),
             YankOriginalSourceUrl(m),
             YankPublication(m),
             YankSiteInformation(m),
             YankVariables(m),
             VariablesOf(YankVariables(m)))

\* g.to_ncdcrecord()
ToNcdcrecordCall == Returns("to_ncdcrecord", "", ToNcdcrecord(sectionindex))

-----------------------------------------------------------------------------
(* Guts.available_sections.                                                *)

\* a variant of AvailableSections: the keys from the last inserted to the first
AvailableSectionsReversed(m) == [i \in 1..Len(m.keys) |-> m.keys[Len(m.keys) + 1 - i]]

\* line 202: list(self.sectionindex.keys()), the keys in insertion order
AvailableSections(m) == m.keys

\* g.available_sections()
AvailableSectionsCall ==
    Returns("available_sections", "",
            [map |-> sectionindex, kind |-> "value", val |-> AvailableSections(sectionindex)])

-----------------------------------------------------------------------------
(* Guts.has_chron and Guts.has_deltar.                                     *)

\* lines 253 and 256: len(chron) > 0
Populated(chron) == Len(chron.rows) > 0

\* the index of the column name of the table chron
ColumnOf(chron, name) == CHOOSE c \in 1..Len(chron.columns) : chron.columns[c] = name

\* a variant of AnyNotnull: every row has a value in the column
AnyNotnullEveryRow(chron, name) ==
    \A i \in 1..Len(chron.rows) : chron.rows[i][ColumnOf(chron, name)] # None

\* line 264: any(chron.delta_R.notnull())
AnyNotnull(chron, name) ==
    \E i \in 1..Len(chron.rows) : chron.rows[i][ColumnOf(chron, name)] # None

\* lines 249-257 and 260-268: the outcome r of yank_chron_df, a KeyError
\* caught and answered with False, any other exception propagating, and a
\* table answered with result
ExceptKeyError(r, result) ==
    IF r.kind = "raise" /\ r.val = "KeyError"
    THEN [map |-> r.map, kind |-> "value", val |-> FALSE]
    ELSE IF r.kind = "raise" THEN r
    ELSE [map |-> r.map, kind |-> "value", val |-> result]

\* lines 247-257: the dict after has_chron() and its outcome, r being the
\* outcome of yank_chron_df()
HasChron(r) ==
    ExceptKeyError(r, IF r.kind = "value" THEN Populated(r.val) ELSE FALSE)

\* lines 258-269: the dict after has_deltar() and its outcome, r being the
\* outcome of yank_chron_df()
HasDeltar(r) ==
    ExceptKeyError(r, IF r.kind = "value" THEN AnyNotnull(r.val, "delta_R") ELSE FALSE)

\* g.has_chron()
HasChronCall ==
    Returns("has_chron", "",
            HasChron(YankChronDf(description, sectionindex, "Chronology_Information", None)))

\* g.has_deltar()
HasDeltarCall ==
    Returns("has_deltar", "",
            HasDeltar(YankChronDf(description, sectionindex, "Chronology_Information", None)))

-----------------------------------------------------------------------------
(* Several Guts objects in one process.  The objects are on the heap, each *)
(* with the text it was built from.                                        *)

\* Guts(doc): one more object
NewGuts(doc) ==
    /\ Len(heap) < MaxObjects
    /\ heap' = Append(heap, [text |-> doc, g |-> GutsAmong(doc, heap)])
    /\ UNCHANGED <<gutsvars, fv, drv>>

\* the outcome r of a method of the object at the address a
ReturnsOn(a, op, arg, r) ==
    /\ heap' = [heap EXCEPT ![a].g.sectionindex = r.map]
    /\ ret' = [op |-> op, arg |-> arg, kind |-> r.kind, val |-> r.val]
    /\ UNCHANGED <<pc, lines, n, dataline_flag, prev_description, description, data,
                   data_beginline, idx, prev_divider, all_keys, all_start, all_stop,
                   sectionindex, fv, drv>>

\* heap[a].pull_section(section)
PullSectionOn(a, section) ==
    /\ a \in 1..Len(heap)
    /\ ~heap[a].g.raised
    /\ ReturnsOn(a, "pull_section", section,
                 PullSectionIn(heap[a].g.description, heap[a].g.sectionindex, section))

-----------------------------------------------------------------------------
(* run_proxy_processing.main, the batch driver.  drv is its activation     *)
(* record: the files of proxydir with their lines (files), the locals      *)
(* targets, fl (as the index k of it in targets), fldata, deltar,          *)
(* deltar_error and agemodel (whether there is one), the log, the rows of  *)
(* proxysimmetadata_all and allmeta_df as the site names they are for, and *)
(* whether the output files are written.  What the age model, the proxy    *)
(* medians and the QC report do with a record is outside the program: each *)
(* succeeds or raises.                                                     *)

\* the names of the files of proxydir, in their sorted order
FileNames == <<"a.txt", "b.txt", "c.txt", "d.txt", "e.txt">>

\* a variant of Sorted: the list is left as glob gave it
SortedNot(targets) == targets

\* line 179: targets.sort()
Sorted(targets) ==
    SelectSeq(FileNames, LAMBDA f : \E i \in 1..Len(targets) : targets[i] = f)

\* the lists glob may give for the files of a directory: each file once
Listings(names) ==
    { t \in [1..Cardinality(names) -> names] :
        \A i, j \in 1..Cardinality(names) : t[i] = t[j] => i = j }

RECURSIVE JoinAll(_)
\* ''.join(parts)
JoinAll(parts) == IF parts = <<>> THEN "" ELSE parts[1] \o JoinAll(Tail(parts))

\* line 189: ''.join(os.path.basename(fl).split('.')[:-1])
SiteNameOf(fl) ==
    JoinAll(SubSeq(split(fl, ".", -1), 1, Len(split(fl, ".", -1)) - 1))

\* the log with one more entry
Logged(level, what, more) == Append(drv.log, <<level, what, more>>)

\* the distinct values of the column name of the table df that are not null
Unique(df, name) ==
    { df.rows[i][ColumnOf(df, name)] : i \in 1..Len(df.rows) } \ {None}

\* lines 138-148: has_chron(obj) of the driver, more than one date
DriverHasChron(obj) == Len(obj.chronology_information.rows) > 1

\* carbonferret: the estimate get_deltar_online gives
Online == [deltar |-> Some("online"), error |-> Some("online_1s_err")]

\* lines 241-250: deltar and deltar_error after the choice between the
\* values of the file and the estimate
DriverDeltar(chron) ==
    IF Cardinality(Unique(chron, "delta_R_1s_err")) > 1
       /\ Cardinality(Unique(chron, "delta_R")) > 1
    THEN [deltar |-> None, error |-> None]
    ELSE IF Cardinality(Unique(chron, "delta_R")) > 1
    THEN [deltar |-> None, error |-> Online.error]
    ELSE Online

\* main is called on a directory with the files fs
DrvInit(fs) ==
    [pc |-> "main", files |-> fs, targets |-> <<>>, k |-> 0, fldata |-> None,
     deltar |-> None, deltar_error |-> None, agemodel |-> FALSE, log |-> <<>>,
     simmeta |-> <<>>, allmeta |-> <<>>, written |-> FALSE]

\* the step of the driver leaves the Guts object and find_values alone
DrvOnly == UNCHANGED <<gutsvars, fv, heap>>

\* lines 171-182: the directories, the sorted targets and the empty tables
DrvStart ==
    /\ drv.pc = "main"
    /\ \E listing \in Listings(DOMAIN drv.files) :
          drv' = [drv EXCEPT !.pc = "for", !.targets = Sorted(listing),
                             !.log = Logged("info", "New run", "")]
    /\ DrvOnly

\* lines 184-185: the next target, if there is one
DrvFor ==
    /\ drv.pc = "for"
    /\ drv' = IF drv.k < Len(drv.targets)
              THEN [drv EXCEPT !.pc = "open",
                               !.log = Logged("info", "Starting proxy file", drv.targets[drv.k + 1])]
              ELSE [drv EXCEPT !.pc = "write"]
    /\ DrvOnly

\* line 188 and records.py, lines 24-28: read_ncdc(fl) up to g = Guts(...)
DrvOpen ==
    /\ drv.pc = "open"
    /\ drv' = [drv EXCEPT !.pc = "record"]
    /\ lines' = drv.files[drv.targets[drv.k + 1]]
    /\ Becomes(GutsAmong(drv.files[drv.targets[drv.k + 1]], heap))
    /\ UNCHANGED <<fv, heap>>

\* records.py, lines 28-29: the outcome of read_ncdc(fl), which is the
\* exception of Guts(...) when it raised, and the outcome r of
\* g.to_ncdcrecord() otherwise
ReadNcdc(fl, r) ==
    IF pc = "raised"
    THEN [op |-> "read_ncdc", arg |-> fl, kind |-> "raise", val |-> ret.val]
    ELSE [op |-> "read_ncdc", arg |-> fl, kind |-> r.kind, val |-> r.val]

\* line 188 and records.py, line 29: read_ncdc(fl) returns or raises
DrvRecord ==
    /\ drv.pc = "record"
    /\ drv' = [drv EXCEPT !.pc = "read"]
    /\ ret' = ReadNcdc(drv.targets[drv.k + 1], ToNcdcrecord(sectionindex))
    /\ UNCHANGED <<pc, lines, n, dataline_flag, prev_description, description, data,
                   data_beginline, idx, prev_divider, all_keys, all_start, all_stop,
                   sectionindex, fv, heap>>

\* a variant of DrvAfterRead: the exception is not caught and ends the run
DrvAfterReadUncaught(r) ==
    IF r.kind = "raise"
    THEN [drv EXCEPT !.pc = "done"]
    ELSE [drv EXCEPT !.pc = "screen",
                     !.fldata = Some([site_name |-> SiteNameOf(r.arg)] @@ r.val)]

\* lines 187-192: the driver after read_ncdc(fl) with the outcome r: the
\* record with the site name of the file, or the exception logged and the
\* file left
DrvAfterRead(r) ==
    IF r.kind = "raise"
    THEN [drv EXCEPT !.pc = "for", !.k = @ + 1, !.fldata = None,
                     !.log = Logged("exception", "Exception while reading proxy file", r.arg)]
    ELSE [drv EXCEPT !.pc = "screen",
                     !.fldata = Some([site_name |-> SiteNameOf(r.arg)] @@ r.val)]

\* lines 187-192: the try statement around read_ncdc(fl)
DrvRead ==
    /\ drv.pc = "read"
    /\ drv' = DrvAfterRead(ret)
    /\ DrvOnly

\* lines 125-135: has_data(obj) of the driver
DriverHasData(obj) == Len(obj.data.rows) > 0

\* lines 212-213: latlon
Latlon(obj) ==
    <<obj.site_information["northernmost_latitude"],
      obj.site_information["westernmost_longitude"]>>

\* lines 194-223: the configuration (none is looked for), the files without
\* data or without latitude and longitude, and the locals of the iteration
DrvScreen ==
    /\ drv.pc = "screen"
    /\ drv' = IF ~DriverHasData(drv.fldata[1])
              THEN [drv EXCEPT !.pc = "for", !.k = @ + 1,
                               !.log = Logged("warning", "Ditching file - no data information",
                                              drv.targets[drv.k + 1])]
              ELSE IF None \in { Latlon(drv.fldata[1])[1], Latlon(drv.fldata[1])[2] }
              THEN [drv EXCEPT !.pc = "for", !.k = @ + 1,
                               !.log = Logged("warning", "No latlon data - skipping file",
                                              drv.targets[drv.k + 1])]
              ELSE [drv EXCEPT !.pc = "age", !.deltar = None, !.deltar_error = None,
                               !.agemodel = FALSE]
    /\ DrvOnly

\* lines 225-306: the driver after the age model of the record obj: fitted
\* or loaded and the proxies dated (fit = "dated"), not fitted because
\* fit_agedepthmodel raised ("undated"), or an exception before the choice
\* of deltar is through ("raised")
DrvAfterAge(obj, fit) ==
    IF ~DriverHasChron(obj)
    THEN [drv EXCEPT !.pc = "median",
                     !.log = Logged("info", "no chronology information or no depth in data",
                                    drv.targets[drv.k + 1])]
    ELSE IF \A c \in 1..Len(obj.data.columns) : obj.data.columns[c] # "depth"
    THEN [drv EXCEPT !.pc = "median",
                     !.log = Logged("exception", "Exception in agemodel fitting",
                                    drv.targets[drv.k + 1])]
    ELSE IF ~(Cardinality(Unique(obj.data, "depth")) > 1)
    THEN [drv EXCEPT !.pc = "median",
                     !.log = Logged("info", "no chronology information or no depth in data",
                                    drv.targets[drv.k + 1])]
    ELSE IF fit = "raised"
    THEN [drv EXCEPT !.pc = "median",
                     !.log = Logged("exception", "Exception in agemodel fitting",
                                    drv.targets[drv.k + 1])]
    ELSE [drv EXCEPT !.pc = "median",
                     !.deltar = DriverDeltar(obj.chronology_information).deltar,
                     !.deltar_error = DriverDeltar(obj.chronology_information).error,
                     !.agemodel = (fit = "dated"),
                     !.simmeta = IF fit = "dated" THEN Append(@, obj.site_name) ELSE @,
                     !.log = IF fit = "dated" THEN drv.log
                             ELSE Logged("exception", "Error in agemodel fitting",
                                         drv.targets[drv.k + 1])]

\* lines 225-306: the age model of the file
DrvAge ==
    /\ drv.pc = "age"
    /\ \E fit \in {"dated", "undated", "raised"} : drv' = DrvAfterAge(drv.fldata[1], fit)
    /\ DrvOnly

\* lines 308-314: the proxy medians and their metadata, or an exception
DrvMedian ==
    /\ drv.pc = "median"
    /\ \/ drv' = [drv EXCEPT !.pc = "qc", !.allmeta = Append(@, drv.fldata[1].site_name)]
       \/ drv' = [drv EXCEPT !.pc = "qc",
                             !.log = Logged("exception", "Exception in proxy median metadata",
                                            drv.targets[drv.k + 1])]
    /\ DrvOnly

\* lines 316-326: the QC report, or an exception
DrvQc ==
    /\ drv.pc = "qc"
    /\ \/ drv' = [drv EXCEPT !.pc = "for", !.k = @ + 1]
       \/ drv' = [drv EXCEPT !.pc = "for", !.k = @ + 1,
                             !.log = Logged("exception", "Exception in QC report",
                                            drv.targets[drv.k + 1])]
    /\ DrvOnly

\* lines 328-341: the output files are written
DrvWrite ==
    /\ drv.pc = "write"
    /\ drv' = [drv EXCEPT !.pc = "done", !.written = TRUE,
                          !.log = Logged("info", "Run done", "")]
    /\ DrvOnly

-----------------------------------------------------------------------------
(* lgm.RedateMixin: the later stages of a record.  heap holds the records  *)
(* of the process, each with the call that made it (by); a record is its   *)
(* chronology table, its data table, its site information and what redate  *)
(* puts into it.  The cells of a table are Some(value), or None for NaN;   *)
(* the cells of a data table are numbers.  snakebacon and carbonferret are *)
(* outside the program: the fit succeeds or raises, and the estimate is    *)
(* Online.                                                                 *)

\* 'name' in df.columns
HasColumn(df, name) == \E c \in 1..Len(df.columns) : df.columns[c] = name

\* df[name]
Column(df, name) == [i \in 1..Len(df.rows) |-> df.rows[i][ColumnOf(df, name)]]

\* df[name] = col, for a column col: the column is replaced, or added last
SetColumn(df, name, col) ==
    IF HasColumn(df, name)
    THEN [df EXCEPT !.rows = [i \in 1..Len(df.rows) |->
                                 [df.rows[i] EXCEPT ![ColumnOf(df, name)] = col[i]]]]
    ELSE [columns |-> Append(df.columns, name),
          rows |-> [i \in 1..Len(df.rows) |-> Append(df.rows[i], col[i])]]

\* lines 54-55: the column of a scalar, with the string 'None' made NaN
Scalar(df, v) == [i \in 1..Len(df.rows) |-> IF v = "None" THEN None ELSE Some(v)]

\* a variant of KeepOriginal: the column *_original is written every time
KeepOriginalAlways(df, name) == SetColumn(df, name \o "_original", Column(df, name))

\* lines 52-53 and 58-60: the column is kept as *_original, if there is no
\* such column yet
KeepOriginal(df, name) ==
    IF HasColumn(df, name \o "_original") THEN df
    ELSE SetColumn(df, name \o "_original", Column(df, name))

\* lines 51-55 and 57-62: the value v, if it is not None, swapped in for
\* the column name
Swapin(df, name, v) ==
    IF v = None THEN df ELSE SetColumn(KeepOriginal(df, name), name, Scalar(df, v[1]))

\* lines 22-64: self.swapin_custom_deltar(d_r, d_std), for the record self
SwapinCustomDeltar(self, d_r, d_std) ==
    [kind |-> "new",
     val |-> [self EXCEPT !.chronology_information =
                 Swapin(Swapin(@, "delta_R", d_r), "delta_R_1s_err", d_std)]]

\* lines 70-93: self.redate(), for the record self and what the fit does
Redate(self, fit) ==
    IF fit = "raised" THEN [kind |-> "raise", val |-> "Exception"]
    ELSE [kind |-> "new",
          val |-> [self EXCEPT !.bacon_agemodel = TRUE, !.age_median = TRUE]]

\* lines 167-177: delta_r_used and delta_r_1s_err_used
UpdateDeltarUsed(chron_df) ==
    LET n_unique_deltarerror == Cardinality(Unique(chron_df, "delta_R"))
        n_unique_deltar == Cardinality(Unique(chron_df, "delta_R_1s_err"))
    IN  IF n_unique_deltarerror > 1 /\ n_unique_deltar > 1
        THEN [deltar |-> None, error |-> None]
        ELSE IF n_unique_deltar > 1
        THEN [deltar |-> None, error |-> Online.error]
        ELSE Online

\* lines 179-185: the value v, if it is not None, put in for the column
\* name and the column kept as *_original
Replaced(df, name, v) ==
    IF v = None THEN df
    ELSE SetColumn(SetColumn(df, name \o "_original", Column(df, name)), name,
                   Scalar(df, v[1]))

\* lines 153-188: self.update_deltar(), for the record self
UpdateDeltar(self) ==
    IF None \in { self.site_information["northernmost_latitude"],
                  self.site_information["easternmost_longitude"] }
    THEN [kind |-> "raise", val |-> "TypeError"]
    ELSE [kind |-> "new",
          val |-> [self EXCEPT !.chronology_information =
                      Replaced(Replaced(@, "delta_R", UpdateDeltarUsed(@).deltar),
                               "delta_R_1s_err", UpdateDeltarUsed(@).error)]]

\* the numbers of the cells that are not NaN
Numbers(cells) == { cells[i][1] : i \in { j \in 1..Len(cells) : cells[j] # None } }

\* the numbers of S in ascending order
Ascending(S) ==
    CHOOSE s \in [1..Cardinality(S) -> S] : \A i, j \in 1..Cardinality(S) : i < j => s[i] < s[j]

RECURSIVE Sum(_)
\* the sum of the cells that are not NaN
Sum(cells) ==
    IF cells = <<>> THEN 0
    ELSE (IF cells[1] = None THEN 0 ELSE cells[1][1]) + Sum(Tail(cells))

\* the mean of the cells that are not NaN; the tables of the model have
\* means that are whole numbers
Mean(cells) ==
    IF \A i \in 1..Len(cells) : cells[i] = None THEN None
    ELSE Some(Sum(cells) \div Cardinality({ i \in 1..Len(cells) : cells[i] # None }))

\* the cells of the column c in the rows of the table with the depth d
CellsAt(df, c, d) ==
    [i \in 1..Len(SelectSeq(df.rows, LAMBDA row : row[ColumnOf(df, "depth")] = Some(d))) |->
       SelectSeq(df.rows, LAMBDA row : row[ColumnOf(df, "depth")] = Some(d))[i][c]]

\* line 200: df.groupby('depth', as_index=False).mean(): a row for every
\* depth, in ascending order, with the means of the other columns
GroupbyDepthMean(df) ==
    [columns |-> df.columns,
     rows |-> [g \in 1..Cardinality(Numbers(Column(df, "depth"))) |->
                 [c \in 1..Len(df.columns) |->
                    IF df.columns[c] = "depth"
                    THEN Some(Ascending(Numbers(Column(df, "depth")))[g])
                    ELSE Mean(CellsAt(df, c, Ascending(Numbers(Column(df, "depth")))[g]))]]]

\* line 193: self.data.df['depth'].duplicated().any()
DuplicatedAny(col) == \E i, j \in 1..Len(col) : i < j /\ col[i] = col[j]

\* a variant of Unchanged: a copy is returned
UnchangedCopy(self) == [kind |-> "new", val |-> self]

\* lines 196 and 234: return self
Unchanged(self) == [kind |-> "self"]

\* lines 190-201: self.average_duplicate_datadepths(), for the record self
AverageDuplicateDatadepths(self) ==
    IF ~HasColumn(self.data, "depth") THEN [kind |-> "raise", val |-> "KeyError"]
    ELSE IF ~DuplicatedAny(Column(self.data, "depth")) THEN Unchanged(self)
    ELSE [kind |-> "new", val |-> [self EXCEPT !.data = GroupbyDepthMean(@)]]

\* lines 238-241: the depth to cut at, the smallest (largest) one of the
\* table when none is given, NaN when the table has no depth
CutDepth(given, depths, smallest) ==
    IF given # None THEN given
    ELSE IF depths = {} THEN None
    ELSE Some(CHOOSE d \in depths : \A e \in depths : IF smallest THEN d <= e ELSE d >= e)

\* line 245: the rows with shallow <= depth <= deep
Between(df, shallow, deep) ==
    [df EXCEPT !.rows = SelectSeq(df.rows,
                                  LAMBDA row : /\ row[ColumnOf(df, "depth")] # None
                                               /\ row[ColumnOf(df, "depth")][1] >= shallow
                                               /\ row[ColumnOf(df, "depth")][1] <= deep)]

\* lines 238-247: the copy out cut at the depths shallow and deep
Sliced(out, shallow, deep) ==
    IF shallow = None \/ deep = None THEN [kind |-> "raise", val |-> "AssertionError"]
    ELSE IF ~(shallow[1] >= 0 /\ deep[1] >= 0)
    THEN [kind |-> "raise", val |-> "AssertionError"]
    ELSE [kind |-> "new", val |-> [out EXCEPT !.data = Between(@, shallow[1], deep[1])]]

\* lines 225-247: self.slice_datadepths(shallow, deep), for the record self
SliceDatadepths(self, shallow, deep) ==
    IF Len(self.data.rows) < 1 \/ ~HasColumn(self.data, "depth") THEN Unchanged(self)
    ELSE Sliced(self,
                CutDepth(shallow, Numbers(Column(self.data, "depth")), TRUE),
                CutDepth(deep, Numbers(Column(self.data, "depth")), FALSE))

\* the call op(args) on the record at the address a has the outcome r: a
\* new record is put on the heap, and its address, the address of self or
\* the exception is what the caller gets
CalledOn(a, op, args, r) ==
    /\ heap' = IF r.kind = "new"
               THEN Append(heap, [rec |-> r.val, by |-> [op |-> op, self |-> a, args |-> args]])
               ELSE heap
    /\ ret' = [op |-> op, arg |-> <<a>> \o args,
               kind |-> IF r.kind = "raise" THEN "raise" ELSE "value",
               val |-> IF r.kind = "raise" THEN r.val
                       ELSE IF r.kind = "new" THEN Len(heap) + 1 ELSE a]
    /\ UNCHANGED <<pc, lines, n, dataline_flag, prev_description, description, data,
                   data_beginline, idx, prev_divider, all_keys, all_start, all_stop,
                   sectionindex, fv, drv>>

\* heap[a].swapin_custom_deltar(d_r, d_std)
SwapinCustomDeltarCall(a, d_r, d_std) ==
    /\ a \in 1..Len(heap)
    /\ Len(heap) < MaxObjects
    /\ CalledOn(a, "swapin_custom_deltar", <<d_r, d_std>>,
              SwapinCustomDeltar(heap[a].rec, d_r, d_std))

\* heap[a].update_deltar()
UpdateDeltarCall(a) ==
    /\ a \in 1..Len(heap)
    /\ Len(heap) < MaxObjects
    /\ CalledOn(a, "update_deltar", <<>>, UpdateDeltar(heap[a].rec))

\* heap[a].redate()
RedateCall(a) ==
    /\ a \in 1..Len(heap)
    /\ Len(heap) < MaxObjects
    /\ \E fit \in {"dated", "raised"} : CalledOn(a, "redate", <<>>, Redate(heap[a].rec, fit))

\* heap[a].average_duplicate_datadepths()
AverageDuplicateDatadepthsCall(a) ==
    /\ a \in 1..Len(heap)
    /\ Len(heap) < MaxObjects
    /\ CalledOn(a, "average_duplicate_datadepths", <<>>,
              AverageDuplicateDatadepths(heap[a].rec))

\* heap[a].slice_datadepths(shallow, deep)
SliceDatadepthsCall(a, shallow, deep) ==
    /\ a \in 1..Len(heap)
    /\ Len(heap) < MaxObjects
    /\ CalledOn(a, "slice_datadepths", <<shallow, deep>>,
              SliceDatadepths(heap[a].rec, shallow, deep))

-----------------------------------------------------------------------------
(* The specification Spec: one Guts object is built from a document of at  *)
(* most MaxLines lines, each line one of LineKinds, and then queried.      *)

\* the lines a document of Spec is made of
LineKinds ==
    { DIVIDER, "# Title", "# Data", "# note", DATALINE_TRIGGER, "1\t2", "" }

\* the section names pull_section is called with
PullNames == { "Title", "Data", "data", "Publication" }

\* the sequences of at most k elements of S
SeqUpTo(S, k) == UNION { [1..m -> S] : m \in 0..k }

Init ==
    /\ \E doc \in SeqUpTo(LineKinds, MaxLines) : GutsInit(doc, "divide")
    /\ fv = FvIdle
    /\ heap = <<>>
    /\ drv = DrvIdle

Next ==
    \/ DivideStep
    \/ DivideDone
    \/ IndexStep
    \/ IndexDone
    \/ \E section \in PullNames : PullSectionCall(section)
    \/ GuessMissingvaluesCall
    \/ YankDataDfCall

Spec == Init /\ [][Next]_vars

-----------------------------------------------------------------------------
(* The specification SpecData: the Guts object is built from a document    *)
(* that opens with one of DataHeads and goes on with at most MaxTail lines *)
(* of DataKinds: directives, a table header and table rows.                *)

\* the openings of the documents of SpecData
DataHeads ==
    { << DIVIDER, "# Data", DATALINE_TRIGGER >>,
      << DIVIDER, "# Data", "# Missing Value: x", DATALINE_TRIGGER >>,
      << DIVIDER, "# Title", DATALINE_TRIGGER >> }

\* the lines that follow the opening
DataKinds ==
    { "# Missing Value: -999", "# Missing Value: x", "d\tv", "1\t-999", "x\tNaN" }

InitData ==
    /\ \E head \in DataHeads, tail \in SeqUpTo(DataKinds, MaxTail) :
          GutsInit(head \o tail, "divide")
    /\ fv = FvIdle
    /\ heap = <<>>
    /\ drv = DrvIdle

SpecData == InitData /\ [][Next]_vars

-----------------------------------------------------------------------------
(* The specification SpecFind: one call of find_values on at most          *)
(* MaxFindLines lines, each one of FindLines.                              *)

\* the lines find_values searches
FindLines == { "a: 1", "a: 1:2\n", "a: ", "a-2\t\n", "b: 7" }

\* the keys find_values is called with
FindKeys == { "a", "b", "z" }

\* the separators find_values is called with
FindSeps == { ":", "-" }

\* the converters find_values is called with: none, or int
FindFuns == { "None", "int" }

InitFind ==
    /\ GutsInit(<<>>, "idle")
    /\ \E x \in SeqUpTo(FindLines, MaxFindLines), k \in FindKeys,
          sep \in FindSeps, fun \in FindFuns :
          fv = FvInit(x, k, sep, fun)
    /\ heap = <<>>
    /\ drv = DrvIdle

NextFind == FvStep \/ FvReturn

SpecFind == InitFind /\ [][NextFind]_vars

-----------------------------------------------------------------------------
(* The specification SpecRecord: the Guts object is built in one step from *)
(* a document put together from section blocks, each a divider, a heading  *)
(* and a body, in the order of an NCDC file.  The sections Publication,    *)
(* Site Information, Data_Collection and Chronology_Information occur from *)
(* 0 to MaxRepeat times, the other sections once or not at all, and the    *)
(* document is out of order in at most MaxDefects respects; the object is  *)
(* then queried.                                                           *)

\* a section of the document: a divider, the heading line and the body
Block(heading, body) == <<DIVIDER, "# " \o heading>> \o body

\* the j-th Publication section; without a year that int() reads when bad
PubBlock(j, bad) ==
    Block("Publication",
          <<"# Authors: A" \o NatStr(j),
            "# Published_Date_or_Year: " \o (IF bad THEN "in press" ELSE NatStr(2015 + j))>>
          \o (IF j % 2 = 0 THEN <<"# Journal_Name: J">> ELSE <<"# DOI: ">>))

\* the j-th Site Information section
SiteBlock(j) ==
    Block("Site Information", <<"# Site_Name: S" \o NatStr(j), "# Elevation: -25.5">>)

\* the j-th Data_Collection section
CollectionBlock(j) ==
    Block("Data_Collection",
          <<"#   Collection_Name: C" \o NatStr(j), "#   Collection_Year: 2009">>)

\* the kinds of chronology section: with the table header, and with a
\* header that lost its last tab
ChronKinds == { "table", "stripped" }

\* the j-th Chronology_Information section
ChronBlock(j, kind) ==
    Block("Chronology_Information",
          << IF kind = "table" THEN CHRON_HEADER ELSE rstrip(CHRON_HEADER),
             "# L" \o NatStr(j) \o "\tx\t2\tG\t-999\t-999.0\tNaN\tNA\t3\t4\tT\t",
             "#" >>)

\* the end of the document: nothing, a table without a Data section, and a
\* Data section without directive, with the directive -999 and with x
DataParts ==
    { <<>>,
      <<DATALINE_TRIGGER, "d\tv", "1\t-999">>,
      Block("Data", <<DATALINE_TRIGGER, "d\tv", "1\t-999">>),
      Block("Data", <<"# Missing Value: -999", DATALINE_TRIGGER, "d\tv", "1\t-999">>),
      Block("Data", <<"# Missing Value: x", DATALINE_TRIGGER, "d\tv", "1\t-999">>) }

\* the document of an NCDC file in good order: every section once, the
\* chronology with its table header, the Data section with a directive
Standard ==
    [pub |-> 1, badyear |-> FALSE, site |-> 1, collection |-> 1, chron |-> 1,
     header |-> "table", note |-> TRUE, notes |-> TRUE, variables |-> TRUE,
     data |-> Block("Data", <<"# Missing Value: -999", DATALINE_TRIGGER,
                              "d\tv", "1\t-999">>)]

\* in how many respects the shape s is not the standard one
Defects(s) == Cardinality({ f \in DOMAIN Standard : s[f] # Standard[f] })

\* what a document is made of: it differs from the standard document in at
\* most MaxDefects respects
Shapes ==
    { s \in [pub : 0..MaxRepeat, badyear : BOOLEAN, site : 0..MaxRepeat,
             collection : 0..MaxRepeat, chron : 0..MaxRepeat, header : ChronKinds,
             note : BOOLEAN, notes : BOOLEAN, variables : BOOLEAN, data : DataParts] :
        Defects(s) <= MaxDefects }

RECURSIVE Repeated(_, _)
\* the j-th and later occurrences of the sections that may repeat
Repeated(s, j) ==
    IF j > MaxRepeat THEN <<>>
    ELSE (IF j <= s.pub THEN PubBlock(j, s.badyear /\ j = s.pub) ELSE <<>>)
         \o (IF j <= s.site THEN SiteBlock(j) ELSE <<>>)
         \o (IF j <= s.collection THEN CollectionBlock(j) ELSE <<>>)
         \o (IF j <= s.chron THEN ChronBlock(j, s.header) ELSE <<>>)
         \o Repeated(s, j + 1)

\* the document of the shape s
DocOf(s) ==
    (IF s.note THEN Block(SourceUrlSection, <<"# Original_Source_URL: http://x">>)
     ELSE <<>>)
    \o (IF s.notes THEN Block("Description and Notes", <<"# Description: cores">>)
        ELSE <<>>)
    \o Repeated(s, 1)
    \o (IF s.variables THEN Block("Variables", <<"## depth\tdepth,,,cm,,,,,N">>)
        ELSE <<>>)
    \o s.data

InitRecord ==
    /\ \E s \in Shapes : GutsInit(DocOf(s), "new")
    /\ fv = FvIdle
    /\ heap = <<>>
    /\ drv = DrvIdle

NextRecord ==
    \/ Construct
    \/ PullSectionCall("Publication")
    \/ AvailableSectionsCall
    \/ YankChronDfCall
    \/ YankPublicationCall
    \/ YankSiteInformationCall
    \/ YankDataCollectionCall
    \/ ToNcdcrecordCall

SpecRecord == InitRecord /\ [][NextRecord]_vars

-----------------------------------------------------------------------------
(* The specification SpecChron: the Guts object is built in one step from  *)
(* a document with a Title section, at most two Chronology_Information     *)
(* sections and a Data section.  The first chronology section has the      *)
(* table header, a header that lost its last tab, or none, and then at     *)
(* most MaxChronRows lines of ChronRows; the object is then asked for its  *)
(* chronology.                                                             *)

\* the lines after the header of a chronology section: rows with the
\* delta_R cell 188, -999, NaN and NA, a row that ends before delta_R, and
\* a line that is blank once cleaned
ChronRows ==
    { "# 152757\t5\t6\tG. ruber\t475\t30\t188\t73\t-999\t-999\t-999\t",
      "# 152758\t5\t6\tG. ruber\t-999\t-999\t-999\t-999\t-999\t-999\t-999\t",
      "# 152759\t7\t8\tG. ruber\t475\t30\tNaN\t73",
      "# 152760\t7\t8\tG. ruber\t475\t30\tNA\t73",
      "# 152761\t9",
      "#" }

\* the header lines of the first chronology section
ChronHeads == { <<"#", CHRON_HEADER>>, <<"#", rstrip(CHRON_HEADER)>>, <<"#">> }

\* the chronology sections of a document: none, one, and a second one
\* with a row after the first
ChronParts ==
    { <<>> }
    \cup { Block("Chronology_Information", h \o rows) \o second :
              h \in ChronHeads, rows \in SeqUpTo(ChronRows, MaxChronRows),
              second \in { <<>>,
                           Block("Chronology_Information",
                                 <<CHRON_HEADER,
                                   "# 152762\t1\t2\tG. ruber\t475\t30\t200\t50">>) } }

InitChron ==
    /\ \E c \in ChronParts :
          GutsInit(Block("Title", <<"#">>) \o c
                   \o Block("Data", <<DATALINE_TRIGGER, "# Missing Value: -999",
                                      "depth\tage", "1\t2">>),
                   "new")
    /\ fv = FvIdle
    /\ heap = <<>>
    /\ drv = DrvIdle

NextChron ==
    \/ Construct
    \/ YankChronDfCall
    \/ HasChronCall
    \/ HasDeltarCall

SpecChron == InitChron /\ [][NextChron]_vars

-----------------------------------------------------------------------------
(* The specification SpecObjects: a process builds at most MaxObjects Guts *)
(* objects, each from one of ObjectDocs, in any order, and calls           *)
(* pull_section on them in between.                                        *)

\* the documents the objects are built from: two with sections and data,
\* one without the trigger, one with an empty line
ObjectDocs ==
    { <<DIVIDER, "# Title", "# a", DIVIDER, "# Data", DATALINE_TRIGGER, "d\tv", "1\t2">>,
      <<DIVIDER, "# Title", "# b", DATALINE_TRIGGER, "d", "# late", "3">>,
      <<DIVIDER, "# Data", "# c">>,
      <<"# d", "">> }

InitObjects ==
    /\ GutsInit(<<>>, "idle")
    /\ fv = FvIdle
    /\ heap = <<>>
    /\ drv = DrvIdle

NextObjects ==
    \/ \E doc \in ObjectDocs : NewGuts(doc)
    \/ \E a \in 1..MaxObjects, section \in {"Title", "Data"} : PullSectionOn(a, section)

SpecObjects == InitObjects /\ [][NextObjects]_vars

-----------------------------------------------------------------------------
(* The specification SpecDriver: main runs on a directory of at most       *)
(* MaxFiles files, each with the lines of one of DriverDocs.  In           *)
(* SpecDriverFair the driver goes on as long as it has a step to take:     *)
(* every call it makes returns or raises.                                  *)

\* the Site Information section of a file, with or without the latitude
DriverSite(lat) ==
    Block("Site Information",
          <<"# Site_Name: S", "# Westernmost_Longitude: 44.3">>
          \o (IF lat THEN <<"# Northernmost_Latitude: 11.955">> ELSE <<>>))

\* the documents of a file: the sections to_ncdcrecord reads, then others
DriverDoc(site, others) ==
    Block(SourceUrlSection, <<"# Original_Source_URL: http://x">>)
    \o Block("Description and Notes", <<"# Description: cores">>)
    \o site
    \o CollectionBlock(1)
    \o Block("Chronology_Information",
              <<CHRON_HEADER,
                "# 152757\t5\t6\tG. ruber\t475\t30\t188\t73\t-999\t-999\t-999\t",
                "# 152758\t7\t8\tG. ruber\t600\t30\t190\t73\t-999\t-999\t-999\t">>)
    \o Block("Variables", <<"## depth\tdepth,,,cm,,,,,N">>)
    \o others

\* the end of a document in good order: a publication and the data
DriverData ==
    PubBlock(1, FALSE)
    \o Block("Data", <<"# Missing Value: -999", DATALINE_TRIGGER, "depth\tage", "1\t2", "3\t4">>)

\* the lines of the files: a document in good order, one without the
\* latitude, one without Publication (to_ncdcrecord raises KeyError), one
\* with an empty line (Guts raises IndexError) and one without depths
DriverDocs ==
    { DriverDoc(DriverSite(TRUE), DriverData),
      DriverDoc(DriverSite(FALSE), DriverData),
      DriverDoc(DriverSite(TRUE), Block("Data", <<DATALINE_TRIGGER, "depth\tage", "1\t2">>)),
      DriverDoc(DriverSite(TRUE), <<"">> \o DriverData),
      DriverDoc(DriverSite(TRUE),
                PubBlock(1, FALSE) \o Block("Data", <<DATALINE_TRIGGER, "d\tage", "1\t2">>)) }

InitDriver ==
    /\ GutsInit(<<>>, "idle")
    /\ fv = FvIdle
    /\ heap = <<>>
    /\ \E k \in 1..MaxFiles :
          \E fs \in [{ FileNames[i] : i \in 1..k } -> DriverDocs] : drv = DrvInit(fs)

NextDriver ==
    \/ DrvStart
    \/ DrvFor
    \/ DrvOpen
    \/ DrvRecord
    \/ DrvRead
    \/ DrvScreen
    \/ DrvAge
    \/ DrvMedian
    \/ DrvQc
    \/ DrvWrite

SpecDriver == InitDriver /\ [][NextDriver]_vars

\* a step of the driver as its activation record shows it: Guts(...) and
\* to_ncdcrecord() return or raise, and the other steps are what they are
DrvGoesOn ==
    \/ drv.pc = "open" /\ drv' = [drv EXCEPT !.pc = "record"]
    \/ drv.pc = "record" /\ drv' = [drv EXCEPT !.pc = "read"]
    \/ DrvStart \/ DrvFor \/ DrvRead \/ DrvScreen \/ DrvAge \/ DrvMedian \/ DrvQc \/ DrvWrite

SpecDriverFair == SpecDriver /\ WF_drv(DrvGoesOn)

-----------------------------------------------------------------------------
(* The specification SpecRedate: a process has one record, one of          *)
(* RedateRecords, and calls the later stages on it and on the records they *)
(* return, until it has MaxObjects records.                                *)

\* a chronology table with the two rows of delta_R and delta_R_1s_err
RedateChron(deltar, error) ==
    [columns |-> <<"Labcode", "delta_R", "delta_R_1s_err">>,
     rows |-> << <<Some("L1"), deltar[1], error[1]>>, <<Some("L2"), deltar[2], error[2]>> >>]

\* the columns of delta_R and of delta_R_1s_err: no value, one value, two
RedateColumns ==
    { <<None, None>>, <<Some("188"), Some("188")>>, <<Some("188"), Some("190")>> }

\* the data tables: depths that repeat, depths that do not, one without a
\* depth, no rows, and no depth column
RedateData ==
    { [columns |-> <<"depth", "d18O">>,
       rows |-> << <<Some(2), Some(1)>>, <<Some(2), Some(3)>>, <<Some(4), None>> >>],
      [columns |-> <<"depth", "d18O">>, rows |-> << <<Some(1), Some(1)>>, <<Some(3), Some(5)>> >>],
      [columns |-> <<"depth", "d18O">>, rows |-> << <<None, Some(1)>> >>],
      [columns |-> <<"depth", "d18O">>, rows |-> <<>>],
      [columns |-> <<"d", "d18O">>, rows |-> << <<Some(1), Some(1)>> >>] }

\* a record as read_ncdc gives it
RedateRecord(chron, d, east) ==
    [chronology_information |-> chron, data |-> d,
     site_information |-> [northernmost_latitude |-> Some("11.955"),
                           westernmost_longitude |-> Some("44.3"),
                           easternmost_longitude |-> east],
     bacon_agemodel |-> FALSE, age_median |-> FALSE]

\* the records of SpecRedate: every chronology with the first data table,
\* one chronology with every data table, and a record without longitude
RedateRecords ==
    { RedateRecord(RedateChron(x, y),
                   CHOOSE d \in RedateData : Len(d.rows) = 3, Some("44.3")) :
        x \in RedateColumns, y \in RedateColumns }
    \cup { RedateRecord(RedateChron(<<Some("188"), Some("190")>>, <<Some("73"), Some("73")>>),
                        d, Some("44.3")) : d \in RedateData }
    \cup { RedateRecord(RedateChron(<<Some("188"), Some("190")>>, <<Some("73"), Some("73")>>),
                        CHOOSE d \in RedateData : Len(d.rows) = 3, None) }

\* the values swapin_custom_deltar is called with
SwapinValues == { None, Some("5"), Some("6"), Some("None") }

\* the depths slice_datadepths is called with
SliceDepths == { None, Some(2), Some(-1) }

InitRedate ==
    /\ GutsInit(<<>>, "idle")
    /\ fv = FvIdle
    /\ \E rec \in RedateRecords :
          heap = << [rec |-> rec, by |-> [op |-> "read_ncdc", self |-> 0, args |-> <<>>]] >>
    /\ drv = DrvIdle

NextRedate ==
    \/ \E a \in 1..MaxObjects, d_r \in SwapinValues, d_std \in {None, Some("5")} :
          SwapinCustomDeltarCall(a, d_r, d_std)
    \/ \E a \in 1..MaxObjects : UpdateDeltarCall(a)
    \/ \E a \in 1..MaxObjects : RedateCall(a)
    \/ \E a \in 1..MaxObjects : AverageDuplicateDatadepthsCall(a)
    \/ \E a \in 1..MaxObjects, shallow \in SliceDepths \ {Some(-1)}, deep \in SliceDepths :
          SliceDatadepthsCall(a, shallow, deep)

SpecRedate == InitRedate /\ [][NextRedate]_vars

-----------------------------------------------------------------------------
(* The specification SpecDivider: the Guts object is built from a document *)
(* of at most MaxLines lines of DividerKinds, which has lines that hold    *)
(* the divider and more, and a line of dashes shorter than the divider.    *)

\* the lines a document of SpecDivider is made of: the divider, a longer
\* run of dashes, the divider after a blank, a shorter run of dashes,
\* headings and an ordinary line
DividerKinds ==
    { DIVIDER, DIVIDER \o "---------------", "# " \o DIVIDER, "#-----------------------",
      "# Title", "# Variables", "# note" }

InitDivider ==
    /\ \E doc \in SeqUpTo(DividerKinds, MaxLines) : GutsInit(doc, "divide")
    /\ fv = FvIdle
    /\ heap = <<>>
    /\ drv = DrvIdle

NextDivider ==
    \/ DivideStep
    \/ DivideDone
    \/ IndexStep
    \/ IndexDone

SpecDivider == InitDivider /\ [][NextDivider]_vars

-----------------------------------------------------------------------------
(* Vocabulary of the properties.                                           *)

\* the elements of a sequence
Range(s) == { s[i] : i \in DOMAIN s }

\* __init__ has returned normally from _divide_portions
Divided == pc \in {"index", "ready"}

\* the 1-based positions of the lines that hold the trigger
TriggerPositions == { i \in 1..Len(lines) : Contains(DATALINE_TRIGGER, lines[i]) }

\* the 1-based positions, after the first trigger line, of lines without a leading '#'
DataPositions ==
    { j \in 1..Len(lines) :
        /\ \E i \in TriggerPositions : i < j
        /\ SubSeq(lines[j], 1, 1) # "#" }

\* the least element of a non-empty set of integers
Least(S) == CHOOSE x \in S : \A y \in S : x <= y

\* the greatest element of a non-empty set of integers
Greatest(S) == CHOOSE x \in S : \A y \in S : x >= y

\* the range the section index holds for the i-th section opened by the scan
Occ(i) ==
    sectionindex.ranges[all_keys[i]]
        [Cardinality({ j \in 1..i : all_keys[j] = all_keys[i] })]

\* the Python indices of description a range (start, stop) selects as a slice
RangeIndices(r) ==
    { j \in r[1]..(Len(description) - 1) : r[2] = None \/ j < r[2][1] }

-----------------------------------------------------------------------------
(* C1.  After _divide_portions, description ++ data is the original line   *)
(* sequence in its original order (no line being empty): description is a *)
(* prefix of the lines and data the rest.                                  *)
C1_DescriptionThenData ==
    (Divided /\ \A i \in 1..Len(lines) : lines[i] # "")
        => description \o data = lines

(* C2.  The trigger line and every '#' line between it and the first line  *)
(* after it without a leading '#' are in description; data_beginline is    *)
(* the index of that first line (None when there is none), and once set it *)
(* never changes.                                                          *)
C2_BeginLineState ==
    Divided =>
        IF DataPositions = {}
        THEN data_beginline = None /\ description = lines
        ELSE LET j == Least(DataPositions) IN
             /\ data_beginline = Some(j - 1)
             /\ SubSeq(description, 1, j - 1) = SubSeq(lines, 1, j - 1)
             /\ Least(TriggerPositions) <= j - 1

C2_BeginLineOnce == data_beginline # None => data_beginline' = data_beginline

C2_BeginLine == [] C2_BeginLineState /\ [][C2_BeginLineOnce]_vars

\* a trigger, a '#' line after it, then two data lines have been divided
C2_Witness ==
    /\ pc = "ready"
    /\ data_beginline # None
    /\ Len(data) >= 2
    /\ data_beginline[1] > Least(TriggerPositions)

(* C3.  A section occurrence followed by another recognized heading has    *)
(* the range (start, stop) with start the description index of its heading *)
(* and stop the index of the next recognized heading minus one; as a       *)
(* half-open range it holds its heading line and not the divider line that *)
(* precedes the next heading.                                              *)
C3_ClosedRanges ==
    pc = "ready" =>
        \A i \in 1..(Len(all_start) - 1) :
            LET start == all_start[i]
                next == all_start[i + 1]
                divider == Greatest({ j \in 0..(next - 1) : IsDivider(description[j + 1]) })
            IN  /\ Occ(i) = <<start, Some(next - 1)>>
                /\ rstrip(description[start + 1]) = "# " \o all_keys[i]
                /\ start \in RangeIndices(Occ(i))
                /\ divider \notin RangeIndices(Occ(i))

(* C4.  The last section opened is closed with stop = data_beginline when  *)
(* there is a data portion and with stop = len(description) when there is  *)
(* none.                                                                   *)
C4_LastStopIsLength ==
    (pc = "ready" /\ Len(all_start) > 0) =>
        LET last == Len(all_start) IN
        Occ(last) = << all_start[last],
                       IF data_beginline # None THEN data_beginline
                       ELSE Some(Len(description)) >>

(* C4, amended.  The last section opened is closed with                    *)
(* stop = data_beginline, which is None when there is no data portion;     *)
(* pull_section of that section then returns, as its last slice, the lines *)
(* from the heading up to the first data line, or up to the end of         *)
(* description when there is no data portion.                              *)
C4_LastStopIsBeginLine ==
    (pc = "ready" /\ Len(all_start) > 0) =>
        LET last == Len(all_start)
            start == all_start[last]
            end == IF data_beginline = None THEN Len(description)
                   ELSE data_beginline[1]
        IN  /\ Occ(last) = <<start, data_beginline>>
            /\ (ret.op = "pull_section" /\ ret.arg = all_keys[last])
                   => /\ ret.kind = "value"
                      /\ ret.val[Len(ret.val)] = SubSeq(lines, start + 1, end)

\* pull_section has returned a last section that runs up to the data portion
C4_Witness ==
    /\ pc = "ready"
    /\ Len(all_start) > 0
    /\ data_beginline # None
    /\ ret.op = "pull_section"
    /\ ret.arg = all_keys[Len(all_keys)]
    /\ Len(ret.val[Len(ret.val)]) >= 2

(* C5.  Every name of the section index is a recognized heading, the       *)
(* ranges under one name are in increasing document order, and no two      *)
(* ranges of the index overlap.                                            *)
C5_IndexWellFormed ==
    pc = "ready" =>
        LET names == Range(sectionindex.keys)
            occs == { <<k, i>> : k \in names, i \in 1..Len(description) }
            real == { o \in occs : o[2] <= Len(sectionindex.ranges[o[1]]) }
        IN  /\ names = DOMAIN sectionindex.ranges
            /\ names \subseteq Range(HEADINGS)
            /\ \A k \in names :
                  \A i \in 1..(Len(sectionindex.ranges[k]) - 1) :
                      sectionindex.ranges[k][i][1] < sectionindex.ranges[k][i + 1][1]
            /\ \A o1 \in real, o2 \in real :
                  o1 # o2 =>
                      RangeIndices(sectionindex.ranges[o1[1]][o1[2]])
                          \cap RangeIndices(sectionindex.ranges[o2[1]][o2[2]]) = {}

\* a name of the index has two ranges, neither of them empty
C5_Witness ==
    /\ pc = "ready"
    /\ \E k \in DOMAIN sectionindex.ranges :
          /\ Len(sectionindex.ranges[k]) >= 2
          /\ \A i \in 1..Len(sectionindex.ranges[k]) :
                RangeIndices(sectionindex.ranges[k][i]) # {}

(* C6.  pull_section(name) raises KeyError for every name without an       *)
(* occurrence in the section index, also for a name that differs from a    *)
(* recognized heading in letter case only; it never returns None or an     *)
(* empty list, and the lookup leaves the index as it was.                  *)
C6_PullStep ==
    (pc = "ready" /\ ret'.op = "pull_section") =>
        /\ sectionindex' = sectionindex
        /\ (\/ ret'.arg \notin DOMAIN sectionindex.ranges
            \/ sectionindex.ranges[ret'.arg] = <<>>)
               => (ret'.kind = "raise" /\ ret'.val = "KeyError")
        /\ ret'.kind = "value" => (ret'.val # None /\ Len(ret'.val) > 0)

C6_PullUnknownRaises == [][C6_PullStep]_vars

\* pull_section('data') has raised on a document that has the section 'Data'
C6_Witness ==
    /\ pc = "ready"
    /\ "Data" \in DOMAIN sectionindex.ranges
    /\ ret.op = "pull_section"
    /\ ret.arg = "data"
    /\ ret.kind = "raise"

-----------------------------------------------------------------------------
(* Vocabulary of the properties of find_values.                            *)

\* the text of l after the first occurrence of sep, without the white space around it
Remainder(l, sep) ==
    LET at == Least({ i \in 1..(Len(l) - Len(sep) + 1) :
                         SubSeq(l, i, i + Len(sep) - 1) = sep })
        rest == SubSeq(l, at + Len(sep), Len(l))
        solid == { i \in 1..Len(rest) : ~IsSpace(SubSeq(rest, i, i)) }
    IN  IF solid = {} THEN "" ELSE SubSeq(rest, Least(solid), Greatest(solid))

\* the positions of the lines of x that hold k and sep
Matching(x, k, sep) ==
    { i \in 1..Len(x) : Contains(k, x[i]) /\ Contains(sep, x[i]) }

\* the positions of the matching lines whose remainder is not empty
Candidates(x, k, sep) ==
    { i \in Matching(x, k, sep) : Remainder(x[i], sep) # "" }

(* C7.  find_values(lines, k, sep) returns the stripped text after the     *)
(* first sep of the last line that holds k and sep and has a non-empty     *)
(* stripped remainder; a later matching line with an empty remainder does  *)
(* not erase it; without such a line the result is None.                   *)
C7_LastNonEmptyWins ==
    fv.pc = "done" =>
        LET c == Candidates(fv.x, fv.k, fv.sep)
            expected == IF c = {} THEN None
                        ELSE Some(Remainder(fv.x[Greatest(c)], fv.sep))
        IN  /\ fv.out = expected
            /\ fv.fun = "None" => fv.ret = [kind |-> "value", val |-> expected]

\* two candidates, the last of them holding sep twice, then a match with an empty remainder
C7_Witness ==
    /\ fv.pc = "done"
    /\ fv.fun = "None"
    /\ Cardinality(Candidates(fv.x, fv.k, fv.sep)) >= 2
    /\ \E i \in Matching(fv.x, fv.k, fv.sep) :
          i > Greatest(Candidates(fv.x, fv.k, fv.sep))
    /\ fv.ret.val # None
    /\ Contains(fv.sep, fv.ret.val[1])
    /\ \E i \in Candidates(fv.x, fv.k, fv.sep) :
          Remainder(fv.x[i], fv.sep) # fv.ret.val[1]

(* C8.  The converter is called once, on the final candidate, exactly when *)
(* a converter is given and a candidate exists; it is never called on None *)
(* nor on an earlier candidate, and when it fails the call raises instead  *)
(* of returning None.                                                      *)
C8_ConverterOnce ==
    /\ fv.pc = "loop" => fv.calls = <<>>
    /\ fv.pc = "done" =>
          LET c == Candidates(fv.x, fv.k, fv.sep)
              final == IF c = {} THEN None
                       ELSE Some(Remainder(fv.x[Greatest(c)], fv.sep))
          IN  /\ fv.calls = IF fv.fun # "None" /\ c # {} THEN <<final>> ELSE <<>>
              /\ \A i \in 1..Len(fv.calls) : fv.calls[i] # None
              /\ fv.calls = <<>> => fv.ret = [kind |-> "value", val |-> final]
              /\ fv.calls # <<>> =>
                    IF \E i \in 1..Len(final[1]) :
                          SubSeq(final[1], i, i) \notin
                              {"0", "1", "2", "3", "4", "5", "6", "7", "8", "9", "+", "-"}
                    THEN fv.ret.kind = "raise"
                    ELSE fv.ret.kind = "value" /\ fv.ret.val # None

\* int has been called on the final candidate '1:2', after an earlier candidate, and has raised
C8_Witness ==
    /\ fv.pc = "done"
    /\ fv.fun = "int"
    /\ Cardinality(Candidates(fv.x, fv.k, fv.sep)) >= 2
    /\ Len(fv.calls) = 1
    /\ fv.ret.kind = "raise"

-----------------------------------------------------------------------------
(* Vocabulary of the properties of the data table.                         *)

\* the lines of the first occurrence of the section Data
DataSection ==
    IF "Data" \in DOMAIN sectionindex.ranges
    THEN Slice(description, sectionindex.ranges["Data"][1][1],
               sectionindex.ranges["Data"][1][2])
    ELSE <<>>

\* the positions in DataSection of the lines '# Missing Value: T'
Directives ==
    { i \in 1..Len(DataSection) :
        /\ Len(DataSection[i]) >= Len(MISSINGVALUE_LABEL)
        /\ SubSeq(DataSection[i], 1, Len(MISSINGVALUE_LABEL)) = MISSINGVALUE_LABEL }

\* the T of the directive line at position i of DataSection
Token(i) ==
    SubSeq(DataSection[i], Len(MISSINGVALUE_LABEL) + 1, Len(DataSection[i]))

\* yank_data_df has returned a table
Yanked == pc = "ready" /\ ret.op = "yank_data_df" /\ ret.kind = "value"

\* the text of field c of row r of the data table (the header is data[1])
CellText(r, c) == split(rstrip(data[r + 1]), "\t", -1)[c]

\* the rows and fields of the data table
Cells ==
    { <<r, c>> \in (1..(Len(data) - 1)) \X (1..2) :
        c <= Len(split(rstrip(data[r + 1]), "\t", -1)) }

(* C9.  When the Data section holds a line '# Missing Value: T', every     *)
(* cell of the table of yank_data_df whose text is T is 'no value', and    *)
(* the cells that differ from T keep their value.                          *)
C9_EveryDirectiveToken ==
    (Yanked /\ Directives # {}) =>
        \A rc \in Cells :
            LET text == CellText(rc[1], rc[2])
                cell == ret.val.rows[rc[1]][rc[2]]
            IN  IF \E i \in Directives : text = Token(i)
                THEN cell = None
                ELSE cell = Some(text)

(* C9, amended.  When the first Data section holds lines with the label    *)
(* '# Missing Value: ', T being the text after the label in the LAST of    *)
(* them, every cell whose text is T is 'no value'; a cell that differs     *)
(* from T keeps its value unless it is one of the strings pandas reads as  *)
(* a missing value by default (NaN, NA, the empty string, ...).            *)
C9_LastDirectiveToken ==
    (Yanked /\ Directives # {}) =>
        \A rc \in Cells :
            LET text == CellText(rc[1], rc[2])
                cell == ret.val.rows[rc[1]][rc[2]]
                T == Token(Greatest(Directives))
            IN  /\ text = T => cell = None
                /\ (text # T /\ text \notin PandasDefaultNA) => cell = Some(text)
                /\ cell \in {None, Some(text)}

\* a table under two directives: a cell with the last token is no value, another cell is kept
C9_Witness ==
    /\ Yanked
    /\ Cardinality({ Token(i) : i \in Directives }) = 2
    /\ \E rc \in Cells :
          /\ CellText(rc[1], rc[2]) = Token(Greatest(Directives))
          /\ ret.val.rows[rc[1]][rc[2]] = None
    /\ \E rc \in Cells : ret.val.rows[rc[1]][rc[2]] # None

(* C10.  When the Data section holds no missing-value directive,           *)
(* yank_data_df falls back to a default set with -999 and NaN: a cell      *)
(* -999 (or NaN) is 'no value' in the table.                               *)
C10_DefaultSentinels ==
    (Yanked /\ \A i \in 1..Len(DataSection) :
                  ~Contains(MISSINGVALUE_LABEL, DataSection[i])) =>
        \A rc \in Cells :
            CellText(rc[1], rc[2]) \in {"-999", "NaN"}
                => ret.val.rows[rc[1]][rc[2]] = None

-----------------------------------------------------------------------------
(* The constructor in one step builds the object the loops build, and      *)
(* find_values as a function returns what its loop returns.                *)

ConstructAgrees ==
    pc = "ready" =>
        LET g == GutsOf(lines) IN
        /\ ~g.raised
        /\ <<n, dataline_flag, prev_description, description, data, data_beginline>>
             = <<g.n, g.dataline_flag, g.prev_description, g.description, g.data,
                 g.data_beginline>>
        /\ <<idx, prev_divider, all_keys, all_start, all_stop>>
             = <<g.idx, g.prev_divider, g.all_keys, g.all_start, g.all_stop>>
        /\ sectionindex = g.sectionindex \/ ret.kind # "none"

ConstructRaises == pc = "raised" => GutsOf(lines).raised /\ GutsOf(lines).n = n

FindValuesAgrees ==
    fv.pc = "done" => fv.ret = FindValues(fv.x, fv.k, fv.sep, fv.fun)

-----------------------------------------------------------------------------
(* Vocabulary of the properties of the record: the sections of a document  *)
(* of SpecRecord, told from its lines.                                     *)

\* the 1-based positions of the heading lines of the section name
HeadingsOf(name) ==
    { i \in 2..Len(lines) : lines[i] = "# " \o name /\ lines[i - 1] = DIVIDER }

\* how often the section name occurs in the document
Count(name) == Cardinality(HeadingsOf(name))

\* the position of the heading of the k-th occurrence of the section name
NthHeading(name, k) ==
    CHOOSE p \in HeadingsOf(name) :
        Cardinality({ q \in HeadingsOf(name) : q < p }) = k - 1

\* the lines of the occurrence with its heading at position p: the heading
\* and the lines after it, up to the next divider or the first data line
OccurrenceLines(p) ==
    LET ends == { q \in (p + 1)..Len(lines) :
                     lines[q] = DIVIDER \/ SubSeq(lines[q], 1, 1) # "#" }
    IN  SubSeq(lines, p, IF ends = {} THEN Len(lines) ELSE Least(ends) - 1)

\* the lines of the k-th occurrence of the section name
Occurrence(name, k) == OccurrenceLines(NthHeading(name, k))

\* a call of op has returned or raised
Called(op) == pc = "ready" /\ ret.op = op

\* a call of op has returned a value
Returned(op) == Called(op) /\ ret.kind = "value"

\* the line x without its first two characters and its trailing white space
Cleaned(x) == rstrip(SubSeq(x, 3, Len(x)))

\* the first occurrence of Chronology_Information
ChronSection == Occurrence("Chronology_Information", 1)

\* the positions in ChronSection of the lines equal to CHRON_HEADER
ChronHeaders == { i \in 1..Len(ChronSection) : ChronSection[i] = CHRON_HEADER }

\* the lines of ChronSection after its first header line that are not
\* blank once cleaned, cleaned
ChronRowLines ==
    LET after == SubSeq(ChronSection, Least(ChronHeaders) + 1, Len(ChronSection))
    IN  SelectSeq([i \in 1..Len(after) |-> Cleaned(after[i])], LAMBDA l : l # "")

\* the text of field c of row r of the chronology table
ChronCellText(r, c) == split(ChronRowLines[r], "\t", -1)[c]

\* the cells of the chronology table that have a text in the document
ChronCells ==
    { rc \in (1..Len(ChronRowLines)) \X (1..Len(split(Cleaned(CHRON_HEADER), "\t", -1))) :
        rc[2] <= Len(split(ChronRowLines[rc[1]], "\t", -1)) }

\* the positions of the directive lines of the Data sections
DataDirectives ==
    { i \in 1..Len(lines) :
        /\ Len(lines[i]) >= Len(MISSINGVALUE_LABEL)
        /\ SubSeq(lines[i], 1, Len(MISSINGVALUE_LABEL)) = MISSINGVALUE_LABEL
        /\ \E p \in HeadingsOf("Data") : p < i /\ i < p + Len(OccurrenceLines(p)) }

\* the document doc without its line at position i
Without(doc, i) == SubSeq(doc, 1, i - 1) \o SubSeq(doc, i + 1, Len(doc))

\* the document doc with the line l put in after position i
With(doc, i, l) == SubSeq(doc, 1, i) \o <<l>> \o SubSeq(doc, i + 1, Len(doc))

\* the tokens a directive of another document may give
DirectiveTokens == { "-999", "x", "NaN", "T" }

\* the documents that differ from this one only in the presence or the
\* value of a directive of a Data section
DirectiveVariants ==
    { Without(lines, i) : i \in DataDirectives }
    \cup { With(Without(lines, i), i - 1, MISSINGVALUE_LABEL \o t) :
              i \in DataDirectives, t \in DirectiveTokens }
    \cup { With(lines, p, MISSINGVALUE_LABEL \o t) :
              p \in HeadingsOf("Data"), t \in DirectiveTokens }

\* the outcome of Guts(doc).yank_chron_df()
ChronOutcome(doc) ==
    LET g == GutsOf(doc) IN
    IF g.raised THEN [kind |-> "raise", val |-> "IndexError"]
    ELSE LET r == YankChronDf(g.description, g.sectionindex,
                              "Chronology_Information", None)
         IN  [kind |-> r.kind, val |-> r.val]

\* yank_chron_df has the same outcome on every document that differs from
\* this one only in a directive of a Data section
ChronIndependent ==
    \A doc \in DirectiveVariants : ChronOutcome(doc) = [kind |-> ret.kind, val |-> ret.val]

(* C11.  With its default arguments yank_chron_df reads exactly the cells   *)
(* -999 and NaN as 'no value', whatever the Data section says: on two      *)
(* documents that differ only in the presence or the value of the          *)
(* directive '# Missing Value:' it yields the same chronology table.       *)
C11_ExactlyTheSentinels ==
    Called("yank_chron_df") =>
        /\ ChronIndependent
        /\ ret.kind = "value" =>
              \A rc \in ChronCells :
                  ret.val.rows[rc[1]][rc[2]] = None
                     <=> ChronCellText(rc[1], rc[2]) \in {"-999", "NaN"}

(* C11, amended.  With its default arguments yank_chron_df reads every     *)
(* cell -999 and every cell NaN as 'no value', and besides them only the   *)
(* cells pandas reads as missing on its own: its default missing strings   *)
(* (NA, the empty string, ...) and the other spelling -999.0 of the number *)
(* -999.  The outcome does not depend on the Data section: on two          *)
(* documents that differ only in the presence or the value of a directive  *)
(* '# Missing Value:' of a Data section it is the same table, or the same  *)
(* error.                                                                  *)
C11_Sentinels ==
    Called("yank_chron_df") =>
        /\ ChronIndependent
        /\ ret.kind = "value" =>
              \A rc \in ChronCells :
                  LET text == ChronCellText(rc[1], rc[2])
                      cell == ret.val.rows[rc[1]][rc[2]]
                  IN  /\ text \in {"-999", "NaN"} => cell = None
                      /\ cell = None =>
                            text \in {"-999", "NaN", "-999.0"} \cup PandasDefaultNA
                      /\ cell # None => cell = Some(text)

\* a chronology table was read from a document whose Data section gives x
\* as the missing value: its cells -999 and NA are 'no value', its cell x
\* is not
C11_Witness ==
    /\ Returned("yank_chron_df")
    /\ \E i \in DataDirectives : lines[i] = MISSINGVALUE_LABEL \o "x"
    /\ \E rc \in ChronCells :
          ChronCellText(rc[1], rc[2]) = "-999" /\ ret.val.rows[rc[1]][rc[2]] = None
    /\ \E rc \in ChronCells :
          ChronCellText(rc[1], rc[2]) = "NA" /\ ret.val.rows[rc[1]][rc[2]] = None
    /\ \E rc \in ChronCells :
          ChronCellText(rc[1], rc[2]) = "x" /\ ret.val.rows[rc[1]][rc[2]] = Some("x")

(* C12.  yank_chron_df raises an error and returns no table whenever the    *)
(* Chronology_Information section holds no line equal to CHRON_HEADER (or  *)
(* does not exist).  When the header is there, the table is the header     *)
(* line and every line after it up to the end of the section, each without *)
(* its first two characters and its trailing white space: the columns are  *)
(* the fields of the header, and the rows are the fields of the lines      *)
(* after it, in their order (pandas skips the lines that are left blank).  *)
C12_TableFromHeader ==
    Called("yank_chron_df") =>
        IF Count("Chronology_Information") = 0 \/ ChronHeaders = {}
        THEN ret.kind = "raise"
        ELSE /\ ret.kind = "value"
             /\ ret.val.columns = split(Cleaned(CHRON_HEADER), "\t", -1)
             /\ Len(ret.val.rows) = Len(ChronRowLines)
             /\ \A rc \in ChronCells :
                   ret.val.rows[rc[1]][rc[2]] \in {None, Some(ChronCellText(rc[1], rc[2]))}
             /\ \A r \in 1..Len(ret.val.rows) :
                   /\ Len(ret.val.rows[r]) = Len(ret.val.columns)
                   /\ \A c \in 1..Len(ret.val.columns) :
                         <<r, c>> \notin ChronCells => ret.val.rows[r][c] = None

\* a table was read from a section with a line after the header that is
\* blank once cleaned: it has the eleven columns and the one row
C12_Witness ==
    /\ Returned("yank_chron_df")
    /\ \E i \in 1..Len(ChronSection) : i > Least(ChronHeaders) /\ ChronSection[i] = "#"
    /\ ret.val.columns[1] = "Labcode"
    /\ Len(ret.val.columns) = Len(ret.val.rows[1])
    /\ ret.val.rows[1][1] = Some("L1")

\* yank_chron_df raised ValueError on a section whose header line lost its
\* last character
C12_WitnessNoHeader ==
    /\ Called("yank_chron_df")
    /\ Count("Chronology_Information") > 0
    /\ ChronHeaders = {}
    /\ ret.kind = "raise"
    /\ ret.val = "ValueError"

\* the sections to_ncdcrecord reads
RecordSections ==
    { "Chronology_Information", "Data", "Data_Collection", "Description and Notes",
      SourceUrlSection, "Publication", "Site Information", "Variables" }

\* the year of every Publication section, where one is given, is an integer
YearsAreIntegers ==
    \A k \in 1..Count("Publication") :
        LET x == Occurrence("Publication", k)
            at == Candidates(x, "# Published_Date_or_Year:", ":")
        IN  at = {} \/ PyInt(Remainder(x[Greatest(at)], ":")).kind = "value"

\* the document is in order but for the sections S: every other section
\* that to_ncdcrecord reads occurs once, the chronology has its table
\* header, and the years of the publications are integers
InOrderBut(S) ==
    /\ \A name \in RecordSections \ S : Count(name) = 1
    /\ "Chronology_Information" \notin S => ChronHeaders # {}
    /\ "Publication" \notin S => YearsAreIntegers

(* C13.  to_ncdcrecord fails with an error whenever the document has no    *)
(* Data section: no record, and so no partly filled record, is returned;   *)
(* in a document that is in order otherwise the error is the KeyError of   *)
(* the missing section.                                                    *)
C13_NoDataNoRecord ==
    Called("to_ncdcrecord") /\ Count("Data") = 0 =>
        /\ ret.kind = "raise"
        /\ InOrderBut({"Data"}) => ret.val = "KeyError"

\* to_ncdcrecord raised KeyError on a document with a data table and every
\* section but Data
C13_Witness ==
    /\ Called("to_ncdcrecord")
    /\ Count("Data") = 0
    /\ InOrderBut({"Data"})
    /\ data # <<>>
    /\ ret.kind = "raise"
    /\ ret.val = "KeyError"

(* C14.  For a document with a Data section and no Publication section     *)
(* yank_publication returns the empty list and to_ncdcrecord succeeds with *)
(* an empty publication list; no error is raised.                          *)
C14_NoPublicationNoError ==
    /\ Called("yank_publication") /\ Count("Publication") = 0 =>
          ret.kind = "value" /\ ret.val = <<>>
    /\ Called("to_ncdcrecord") /\ Count("Publication") = 0 /\ InOrderBut({"Publication"}) =>
          ret.kind = "value" /\ ret.val.publication = <<>>

\* the sections C15 takes for optional
OptionalSections ==
    { "Site Information", "Data_Collection", "Chronology_Information", "Variables",
      "Description and Notes" }

\* the part of the record ret.val that is read from the section name has
\* no field: None, an empty table or dict, or a dict of None
NothingFrom(name) ==
    LET part == CASE name = "Site Information" -> ret.val.site_information
                  [] name = "Data_Collection" -> ret.val.data_collection
                  [] name = "Chronology_Information" -> ret.val.chronology_information
                  [] name = "Variables" -> ret.val.variables
                  [] OTHER -> ret.val.description
    IN  part = None \/ \A k \in DOMAIN part : part[k] \in {None, <<>>}

(* C15.  Data is the only section whose absence makes to_ncdcrecord fail:   *)
(* for a document with a Data section and a data table that lacks one of   *)
(* Site Information, Data_Collection, Chronology_Information, Variables    *)
(* and Description and Notes, to_ncdcrecord returns a record, and the part  *)
(* of the record read from that section has every field None or empty.     *)
C15_OnlyDataIsRequired ==
    \A name \in OptionalSections :
        Called("to_ncdcrecord") /\ InOrderBut({name}) /\ Count(name) = 0 =>
            ret.kind = "value" /\ NothingFrom(name)

(* C16.  When Site Information or Data_Collection occurs more than once,   *)
(* yank_site_information, respectively yank_data_collection, raises the    *)
(* error of an ambiguous section (AssertionError) and so to_ncdcrecord     *)
(* raises: the fields of one of the occurrences are never returned.  In a  *)
(* document that is in order otherwise the error of to_ncdcrecord is that  *)
(* AssertionError.                                                         *)
C16_AmbiguousSectionRaises ==
    /\ Called("yank_site_information") /\ Count("Site Information") >= 2 =>
          ret.kind = "raise" /\ ret.val = "AssertionError"
    /\ Called("yank_data_collection") /\ Count("Data_Collection") >= 2 =>
          ret.kind = "raise" /\ ret.val = "AssertionError"
    /\ Called("to_ncdcrecord")
          /\ (Count("Site Information") >= 2 \/ Count("Data_Collection") >= 2) =>
          /\ ret.kind = "raise"
          /\ (/\ InOrderBut({"Site Information", "Data_Collection"})
              /\ Count("Site Information") >= 1
              /\ Count("Data_Collection") >= 1) => ret.val = "AssertionError"

\* to_ncdcrecord raised AssertionError on a document with two Site
\* Information sections that is in order otherwise
C16_Witness ==
    /\ Called("to_ncdcrecord")
    /\ Count("Site Information") = 2
    /\ InOrderBut({"Site Information"})
    /\ ret.kind = "raise"
    /\ ret.val = "AssertionError"

(* C17.  When Chronology_Information occurs more than once, yank_chron_df  *)
(* raises the error of an ambiguous section, and so does to_ncdcrecord; no *)
(* table is built from one of the occurrences.                             *)
C17_AmbiguousChronologyRaises ==
    (Called("yank_chron_df") \/ Called("to_ncdcrecord"))
        /\ Count("Chronology_Information") >= 2 => ret.kind = "raise"

\* the value find_values is to return for the target key t on the lines x:
\* the remainder of the last line that holds the key and has one, converted
ExpectedField(x, t) ==
    LET at == Candidates(x, t[2], ":") IN
    IF at = {} THEN None
    ELSE LET text == Remainder(x[Greatest(at)], ":") IN
         IF t[3] = "int" THEN PyInt(text).val ELSE Some(text)

\* pull_section('Publication') has returned the lines of every occurrence,
\* slice i being description[start_i:stop_i], in the order of the document
PublicationSlices ==
    Called("pull_section") /\ ret.arg = "Publication" /\ Count("Publication") >= 1 =>
        /\ ret.kind = "value"
        /\ Len(ret.val) = Count("Publication")
        /\ Len(sectionindex.ranges["Publication"]) = Count("Publication")
        /\ \A i \in 1..Count("Publication") :
              /\ ret.val[i] = Occurrence("Publication", i)
              /\ ret.val[i] = Slice(description,
                                    sectionindex.ranges["Publication"][i][1],
                                    sectionindex.ranges["Publication"][i][2])

\* yank_publication has returned one dict for every occurrence, in the
\* order of the document, entry i with the fields of occurrence i
PublicationFields ==
    /\ ret.kind = "value"
    /\ Len(ret.val) = Count("Publication")
    /\ \A i \in 1..Count("Publication") :
          /\ DOMAIN ret.val[i] = { PublicationKeys[j][1] : j \in 1..Len(PublicationKeys) }
          /\ \A j \in 1..Len(PublicationKeys) :
                ret.val[i][PublicationKeys[j][1]]
                   = ExpectedField(Occurrence("Publication", i), PublicationKeys[j])

(* C18.  For a document with n >= 1 Publication sections pull_section       *)
(* returns n slices in the order of the document, slice i being            *)
(* description[start_i:stop_i], and yank_publication returns n dicts in    *)
(* the same order, entry i read from the lines of occurrence i only, with  *)
(* None for every key that is missing or empty there.                      *)
C18_OneEntryPerOccurrence ==
    /\ PublicationSlices
    /\ Called("yank_publication") /\ Count("Publication") >= 1 => PublicationFields

(* C18, amended.  As C18, provided the year of every occurrence that gives *)
(* one is an integer; when int() fails on a year, yank_publication raises  *)
(* its ValueError and returns no list.                                     *)
C18_OneEntryPerOccurrenceOrError ==
    /\ PublicationSlices
    /\ Called("yank_publication") /\ Count("Publication") >= 1 =>
          IF YearsAreIntegers THEN PublicationFields
          ELSE ret.kind = "raise" /\ ret.val = "ValueError"

\* yank_publication returned two dicts for two Publication sections that
\* have other sections between them: each has its own authors, the empty
\* DOI of the first and the journal the first lacks are None
C18_Witness ==
    /\ Returned("yank_publication")
    /\ Count("Publication") = 2
    /\ NthHeading("Publication", 2)
          > NthHeading("Publication", 1) + Len(Occurrence("Publication", 1)) + 1
    /\ ret.val[1]["authors"] = Some("A1")
    /\ ret.val[2]["authors"] = Some("A2")
    /\ ret.val[1]["published_date_or_year"] = Some(2016)
    /\ ret.val[1]["doi"] = None
    /\ ret.val[1]["journal_name"] = None
    /\ ret.val[2]["journal_name"] = Some("J")

-----------------------------------------------------------------------------
(* Properties of the constructor on documents without trigger, and of      *)
(* dividers inside a section.                                              *)

\* the constructor has returned, and the last section it opened runs to
\* the end of description
LastRunsToTheEnd ==
    all_keys # <<>> =>
        RangeIndices(Occ(Len(all_keys)))
           = all_start[Len(all_start)]..(Len(description) - 1)

(* C19.  Constructing Guts from a document in which the trigger never      *)
(* appears raises no error; the object has an empty data, data_beginline   *)
(* None, a description with every line of the document, and a section      *)
(* index whose last occurrence runs to the end of description.             *)
C19_NoTriggerNoError ==
    TriggerPositions = {} =>
        /\ pc # "raised"
        /\ pc = "ready" =>
              /\ data = <<>>
              /\ data_beginline = None
              /\ description = lines
              /\ LastRunsToTheEnd

\* C19 for the documents without an empty line
NoTriggerNoEmptyLine ==
    TriggerPositions = {} /\ (\A i \in 1..Len(lines) : lines[i] # "") =>
        /\ pc # "raised"
        /\ pc = "ready" =>
              /\ data = <<>>
              /\ data_beginline = None
              /\ description = lines
              /\ LastRunsToTheEnd

\* the line is a recognized heading
Recognized(ln) == \E i \in 1..Len(HEADINGS) : rstrip(ln) = "# " \o HEADINGS[i]

\* the Python indices d of description with a divider at d, a line that is
\* neither a recognized heading nor a divider at d + 1, and a section
\* opened before d
DividersInside ==
    { d \in 0..(Len(description) - 2) :
        /\ description[d + 1] = DIVIDER
        /\ ~Recognized(description[d + 2])
        /\ description[d + 2] # DIVIDER
        /\ \E i \in 1..Len(all_start) : all_start[i] < d }

\* the section open at the index d of description: the last one opened
\* before d
OpenAt(d) == Greatest({ i \in 1..Len(all_start) : all_start[i] < d })

(* C20.  A divider followed by a line that is not a recognized heading     *)
(* (nor a divider), both inside an open section, neither closes nor splits *)
(* the section and makes no index entry: no occurrence starts at either    *)
(* line, and both lines are inside the range of the occurrence that was    *)
(* open.                                                                   *)
C20_DividerStaysInside ==
    pc = "ready" =>
        \A d \in DividersInside :
            /\ \A i \in 1..Len(all_start) : all_start[i] \notin {d, d + 1}
            /\ {d, d + 1} \subseteq RangeIndices(Occ(OpenAt(d)))

\* the scan of a divider, or of a line after a divider that is not a
\* recognized heading, leaves the lists of keys, starts and stops as they are
DividerStepKeepsEntries ==
    [][pc = "index" /\ idx' = idx + 1
          /\ (description[idx + 1] = DIVIDER \/ ~Recognized(description[idx + 1]))
          => UNCHANGED <<all_keys, all_start, all_stop>>]_vars

\* C20 for the documents in which every heading that opens a section comes
\* right after a divider and no line of description comes after the first
\* data line
DividerStaysInsideAfterDividers ==
    /\ pc = "ready"
    /\ \A i \in 1..Len(all_start) : description[all_start[i]] = DIVIDER
    /\ data_beginline = None \/ Len(description) <= data_beginline[1]
    => \A d \in DividersInside :
          /\ \A i \in 1..Len(all_start) : all_start[i] \notin {d, d + 1}
          /\ {d, d + 1} \subseteq RangeIndices(Occ(OpenAt(d)))

-----------------------------------------------------------------------------
\* the names of the sections that occur in the document
Occurring == { HEADINGS[i] : i \in { j \in 1..Len(HEADINGS) : Count(HEADINGS[j]) >= 1 } }

(* C21.  available_sections never raises and returns exactly the names     *)
(* that occur at least once in the document, each once, in the order of    *)
(* the document positions of their first occurrences; this also after      *)
(* pull_section was called with a name that does not occur.                *)
C21_NamesInDocumentOrder ==
    Called("available_sections") =>
        /\ ret.kind = "value"
        /\ Range(ret.val) = Occurring
        /\ \A i, j \in 1..Len(ret.val) :
              i < j => Least(HeadingsOf(ret.val[i])) < Least(HeadingsOf(ret.val[j]))

\* available_sections has returned for a document in which Publication
\* occurs twice, with the first occurrences of other sections between and
\* after the two
C21_Witness ==
    /\ Returned("available_sections")
    /\ Count("Publication") = 2
    /\ \E i, j, k \in 1..Len(ret.val) :
          /\ i < j /\ j < k
          /\ ret.val[i] = "Publication"
          /\ Least(HeadingsOf(ret.val[j])) < Greatest(HeadingsOf("Publication"))
          /\ Least(HeadingsOf(ret.val[k])) > Greatest(HeadingsOf("Publication"))

-----------------------------------------------------------------------------
\* the document has a chronology table: its first Chronology_Information
\* section holds the header line
HasChronTable == Count("Chronology_Information") > 0 /\ ChronHeaders # {}

\* the number of the column name of the chronology table
ChronColumn(name) ==
    CHOOSE c \in 1..Len(split(Cleaned(CHRON_HEADER), "\t", -1)) :
        split(Cleaned(CHRON_HEADER), "\t", -1)[c] = name

\* the texts of the delta_R cells of the rows of the chronology table
DeltaRTexts ==
    { ChronCellText(rc[1], rc[2]) : rc \in { x \in ChronCells : x[2] = ChronColumn("delta_R") } }

\* the method op has returned the Boolean b
Answered(op, b) == Returned(op) /\ ret.val = b

\* has_chron or has_deltar was called on a document without the section,
\* or with a table without rows
NoChronology ==
    /\ Called("has_chron") \/ Called("has_deltar")
    /\ Count("Chronology_Information") = 0 \/ (HasChronTable /\ Len(ChronRowLines) = 0)

(* C22.  has_chron returns True exactly when the chronology table has a    *)
(* row after its header, and has_deltar returns True exactly when a row of *)
(* it has a delta_R cell that is neither -999 nor NaN; both return False   *)
(* and do not raise when the header is there without rows and when the     *)
(* section Chronology_Information is absent.                               *)
C22_PopulatedChronology ==
    /\ Called("has_chron") =>
          (Answered("has_chron", TRUE) <=> HasChronTable /\ Len(ChronRowLines) > 0)
    /\ Called("has_deltar") =>
          (Answered("has_deltar", TRUE)
              <=> HasChronTable /\ DeltaRTexts \ {"-999", "NaN"} # {})
    /\ NoChronology => ret.kind = "value" /\ ret.val = FALSE

(* C22, amended.  has_chron returns True exactly when the chronology table *)
(* has a row after its header, and has_deltar returns True exactly when a  *)
(* row of it has a delta_R cell that pandas does not read as missing: one  *)
(* that is none of -999, NaN, -999.0 and the default missing strings of    *)
(* pandas (NA, the empty string, ...).  Both return False and do not raise *)
(* when the header is there without rows and when the section is absent;   *)
(* both raise ValueError when the section is there without the header.     *)
C22_PopulatedChronologyAsRead ==
    /\ Called("has_chron") =>
          (Answered("has_chron", TRUE) <=> HasChronTable /\ Len(ChronRowLines) > 0)
    /\ Called("has_deltar") =>
          (Answered("has_deltar", TRUE)
              <=> HasChronTable
                    /\ DeltaRTexts \ ({"-999", "NaN", "-999.0"} \cup PandasDefaultNA) # {})
    /\ NoChronology => ret.kind = "value" /\ ret.val = FALSE
    /\ Called("has_chron") \/ Called("has_deltar") =>
          IF Count("Chronology_Information") > 0 /\ ChronHeaders = {}
          THEN ret.kind = "raise" /\ ret.val = "ValueError"
          ELSE ret.kind = "value"

\* has_deltar returned False on a table with rows, one with the delta_R
\* cell NA and none with a value
C22_Witness ==
    /\ Answered("has_deltar", FALSE)
    /\ HasChronTable
    /\ "NA" \in DeltaRTexts
    /\ "-999" \in DeltaRTexts

\* has_deltar returned True: a row has the delta_R cell 188
C22_WitnessDeltar == Answered("has_deltar", TRUE) /\ "188" \in DeltaRTexts

\* has_chron returned True on a table whose rows have no delta_R cell
C22_WitnessChron ==
    Answered("has_chron", TRUE) /\ DeltaRTexts = {} /\ Len(ChronRowLines) = 2

\* has_chron returned False on a section with the header and no rows, and
\* on a document without the section
C22_WitnessNoRows ==
    /\ Answered("has_chron", FALSE)
    /\ HasChronTable
    /\ Len(ChronSection) > Greatest(ChronHeaders)

\* has_deltar returned False on a document without the section
C22_WitnessAbsent == Answered("has_deltar", FALSE) /\ Count("Chronology_Information") = 0

-----------------------------------------------------------------------------
\* what a Guts object shows: whether its construction raised, and its
\* attributes description, data, data_beginline and sectionindex
Observable(o) ==
    <<o.g.raised, o.g.description, o.g.data, o.g.data_beginline, o.g.sectionindex>>

\* every object is what Guts builds from its text in a fresh process, so
\* two objects built from the same text are equal in what they show
FunctionOfTheText ==
    /\ \A a \in 1..Len(heap) : heap[a].g = GutsOf(heap[a].text)
    /\ \A a, b \in 1..Len(heap) :
          heap[a].text = heap[b].text => Observable(heap[a]) = Observable(heap[b])

\* a step of the process changes nothing that an object built before shows
OthersUntouched ==
    [][\A a \in 1..Len(heap) :
          a <= Len(heap') /\ heap'[a].text = heap[a].text
             /\ Observable(heap'[a]) = Observable(heap[a])]_vars

(* C23.  Parsing is deterministic and keeps no state between calls: two    *)
(* Guts objects built from the same text have equal description, data,     *)
(* data_beginline and sectionindex (or both constructions raise), whatever *)
(* documents were parsed before or in between, and building an object      *)
(* changes nothing that another object shows.                              *)
C23_NoSharedState == []FunctionOfTheText /\ OthersUntouched

\* three objects, the first and the last built from the same text and
\* another document parsed in between, with sections indexed and data, and
\* pull_section called on one of them
C23_Witness ==
    /\ Len(heap) = 3
    /\ heap[1].text = heap[3].text
    /\ heap[2].text # heap[1].text
    /\ heap[2].g.description # <<>>
    /\ heap[3].g.data # <<>>
    /\ heap[3].g.sectionindex.keys = <<"Title", "Data">>
    /\ ret.op = "pull_section"

-----------------------------------------------------------------------------
\* the files whose reading raised, by the log
FailedFiles ==
    { fl \in DOMAIN drv.files :
        <<"exception", "Exception while reading proxy file", fl>> \in Range(drv.log) }

\* the files the driver has started on, in the order of the log
StartedFiles ==
    LET starts == SelectSeq(drv.log, LAMBDA e : e[2] = "Starting proxy file")
    IN  [i \in 1..Len(starts) |-> starts[i][3]]

\* the names of the files of the directory, sorted
SortedFiles == SelectSeq(FileNames, LAMBDA f : f \in DOMAIN drv.files)

\* the lines of the file are such that read_ncdc raises: an empty line, or
\* no Publication section
Unreadable(fl) ==
    \/ \E i \in 1..Len(drv.files[fl]) : drv.files[fl][i] = ""
    \/ \A i \in 1..Len(drv.files[fl]) : drv.files[fl][i] # "# Publication"

\* the files the driver is through with
FinishedFiles == { StartedFiles[i] : i \in 1..Min(Len(StartedFiles), drv.k) }

\* the driver starts on the files in their sorted order, the files that
\* did not read are the ones in the log and have no row in the outputs,
\* and a run that is over went through every file and wrote the outputs
SkippedAndOthersAttempted ==
    /\ StartedFiles = SubSeq(SortedFiles, 1, Len(StartedFiles))
    /\ \A fl \in FinishedFiles : fl \in FailedFiles <=> Unreadable(fl)
    /\ \A fl \in FailedFiles :
          /\ \A i \in 1..Len(drv.allmeta) : drv.allmeta[i] # SiteNameOf(fl)
          /\ \A i \in 1..Len(drv.simmeta) : drv.simmeta[i] # SiteNameOf(fl)
    /\ drv.pc = "done" => StartedFiles = SortedFiles /\ drv.written

\* when reading the file raises, the exception is logged and the driver
\* goes to the next file with its outputs as they are
FailureLoggedAndSkipped ==
    [][drv.pc = "read" /\ ret.kind = "raise" =>
          /\ drv'.log = Append(drv.log, <<"exception", "Exception while reading proxy file",
                                          drv.targets[drv.k + 1]>>)
          /\ drv'.pc = "for"
          /\ drv'.k = drv.k + 1
          /\ drv'.allmeta = drv.allmeta
          /\ drv'.simmeta = drv.simmeta]_vars

(* C24.  When reading a target file raises an exception, main logs it and  *)
(* skips the file: every other target file is still started on, in the     *)
(* sorted order, the outputs have no row for the file that failed, and the *)
(* run gets to write its output files.                                     *)
C24_FailedFileIsSkipped ==
    /\ []SkippedAndOthersAttempted
    /\ FailureLoggedAndSkipped
    /\ <>(drv.pc = "done" /\ drv.written)

\* a run is over in which the first file did not read and the second one
\* did and has its row in the outputs
C24_Witness ==
    /\ drv.pc = "done"
    /\ drv.written
    /\ Len(drv.targets) = 2
    /\ drv.targets[1] \in FailedFiles
    /\ drv.targets[2] \notin FailedFiles
    /\ drv.allmeta = <<SiteNameOf(drv.targets[2])>>
    /\ drv.simmeta = drv.allmeta

\* a run is over in which Guts raised on one file and to_ncdcrecord on the
\* other one
C24_WitnessBoth ==
    /\ drv.pc = "done"
    /\ Cardinality(FailedFiles) = 2
    /\ \E fl \in FailedFiles : \E i \in 1..Len(drv.files[fl]) : drv.files[fl][i] = ""
    /\ \E fl \in FailedFiles : \A i \in 1..Len(drv.files[fl]) : drv.files[fl][i] # ""

-----------------------------------------------------------------------------
\* the later stages of a record
StageOps ==
    { "swapin_custom_deltar", "update_deltar", "redate", "average_duplicate_datadepths",
      "slice_datadepths" }

\* the last call was the later stage op and returned
Staged(op) == ret.op = op /\ ret.kind = "value"

\* no step changes a record that is on the heap
ReceiversUnchanged ==
    [][\A a \in 1..Len(heap) : Len(heap') >= a /\ heap'[a] = heap[a]]_vars

\* swapin_custom_deltar, update_deltar and redate return a record that was
\* not there before the call
CopyingStagesReturnNew ==
    \A op \in {"swapin_custom_deltar", "update_deltar", "redate"} :
       Staged(op) => ret.val = Len(heap) /\ heap[ret.val].by.self = ret.arg[1]
                     /\ ret.val # ret.arg[1]

(* C25.  Each later stage of a record (swapin_custom_deltar, update_deltar, *)
(* redate, average_duplicate_datadepths, slice_datadepths) returns a new   *)
(* record, distinct from the receiver, also when it has nothing to change; *)
(* the tables of the receiver are as before.                               *)
C25_NewRecordReturned ==
    \A op \in StageOps :
       Staged(op) =>
          /\ ret.val # ret.arg[1]
          /\ ret.val = Len(heap)
          /\ heap[ret.val].by = [op |-> op, self |-> ret.arg[1], args |-> Tail(ret.arg)]

-----------------------------------------------------------------------------
\* the chronology table of the record at the address a
ChronAt(a) == heap[a].rec.chronology_information

\* the columns swapin_custom_deltar writes, by the position of the argument
SwapinColumns == <<"delta_R", "delta_R_1s_err">>

RECURSIVE SwapinStarts(_, _)
\* the records from which the record at a came by calls of
\* swapin_custom_deltar, each on the result of the one before and each
\* with its k-th argument not None
SwapinStarts(a, k) ==
    IF heap[a].by.op = "swapin_custom_deltar" /\ heap[a].by.args[k] # None
    THEN {heap[a].by.self} \cup SwapinStarts(heap[a].by.self, k)
    ELSE {}

\* the column name of the record at a holds the value in every row
AllCells(a, name, value) ==
    \A i \in 1..Len(ChronAt(a).rows) : Column(ChronAt(a), name)[i] = value

\* a call with both arguments None returns a record with the columns of
\* the receiver
NoneNoneChangesNothing ==
    \A a \in 1..Len(heap) :
       heap[a].by.op = "swapin_custom_deltar" /\ heap[a].by.args = <<None, None>>
          => heap[a].rec = heap[heap[a].by.self].rec

(* C26.  After one or more calls of swapin_custom_deltar with d_r not None, *)
(* each on the result of the one before, delta_R_original is the delta_R   *)
(* column the record had before the first call and delta_R is the d_r of   *)
(* the last call; likewise for d_std, delta_R_1s_err and                   *)
(* delta_R_1s_err_original; a call with both arguments None returns a      *)
(* record with unchanged columns.                                          *)
C26_OriginalIsFirst ==
    /\ \A a \in 1..Len(heap), k \in 1..2 :
          \A b \in SwapinStarts(a, k) :
             /\ HasColumn(ChronAt(a), SwapinColumns[k] \o "_original")
             /\ Column(ChronAt(a), SwapinColumns[k] \o "_original")
                   = Column(ChronAt(b), SwapinColumns[k])
             /\ AllCells(a, SwapinColumns[k], heap[a].by.args[k])
    /\ NoneNoneChangesNothing

(* C26 as the program has it.  After one or more calls of                  *)
(* swapin_custom_deltar with d_r not None, each on the result of the one   *)
(* before, delta_R is the d_r of the last call (NaN when d_r is the string *)
(* 'None'), and delta_R_original is the delta_R column the record had      *)
(* before the first call if that record had no delta_R_original column,    *)
(* and the delta_R_original column of that record if it had one; likewise  *)
(* for d_std; a call with both arguments None returns a record with        *)
(* unchanged columns.                                                      *)
C26_OriginalIsFirstKept ==
    /\ \A a \in 1..Len(heap), k \in 1..2 :
          \A b \in SwapinStarts(a, k) :
             /\ HasColumn(ChronAt(a), SwapinColumns[k] \o "_original")
             /\ Column(ChronAt(a), SwapinColumns[k] \o "_original")
                   = IF HasColumn(ChronAt(b), SwapinColumns[k] \o "_original")
                     THEN Column(ChronAt(b), SwapinColumns[k] \o "_original")
                     ELSE Column(ChronAt(b), SwapinColumns[k])
             /\ AllCells(a, SwapinColumns[k],
                         IF heap[a].by.args[k] = Some("None") THEN None
                         ELSE heap[a].by.args[k])
    /\ NoneNoneChangesNothing

\* two calls with different d_r, the first on a record as it was read: the
\* original column is the one of that record
C26_Witness ==
    /\ Len(heap) = 3
    /\ heap[1].by.op = "read_ncdc"
    /\ SwapinStarts(3, 1) = {1, 2}
    /\ heap[2].by.args[1] = Some("5")
    /\ heap[3].by.args[1] = Some("6")
    /\ Column(ChronAt(1), "delta_R") = <<Some("188"), Some("190")>>
    /\ Column(ChronAt(3), "delta_R_original") = <<Some("188"), Some("190")>>
    /\ Column(ChronAt(3), "delta_R") = <<Some("6"), Some("6")>>

\* a call on the record update_deltar returned, which has the column
\* delta_R_original already
C26_WitnessKept ==
    /\ Len(heap) = 3
    /\ heap[2].by.op = "update_deltar"
    /\ SwapinStarts(3, 1) = {2}
    /\ Column(ChronAt(2), "delta_R") # Column(ChronAt(2), "delta_R_original")
    /\ Column(ChronAt(3), "delta_R_original") = Column(ChronAt(2), "delta_R_original")

\* a call with both arguments None
C26_WitnessNone ==
    /\ Len(heap) = 2
    /\ heap[2].by.op = "swapin_custom_deltar"
    /\ heap[2].by.args = <<None, None>>

-----------------------------------------------------------------------------
(* C27.  A recognized heading opens a section occurrence only when the     *)
(* line right before it is a divider: an ordinary line resets the pending  *)
(* divider, so that a heading-like line one or more ordinary lines after   *)
(* the last divider stays inside the open section and adds no entry to the *)
(* index.                                                                  *)
C27_HeadingRightAfterDivider ==
    pc = "ready" =>
        \A i \in 1..Len(all_start) :
            /\ all_start[i] >= 1
            /\ IsDivider(description[all_start[i]])

\* what the program has instead: a heading opens a section occurrence when
\* a divider comes somewhere between it and the heading that opened the
\* occurrence before (or the beginning of the description)
HeadingAfterSomeDivider ==
    pc = "ready" =>
        \A i \in 1..Len(all_start) :
            \E d \in (IF i = 1 THEN 0 ELSE all_start[i - 1])..(all_start[i] - 1) :
                IsDivider(description[d + 1])

-----------------------------------------------------------------------------
\* the line at the Python index d of description holds the divider and is
\* not the divider
HoldsDivider(d) == Contains(DIVIDER, description[d + 1]) /\ description[d + 1] # DIVIDER

\* the Python indices at which a section occurrence starts
Starts == { all_start[i] : i \in 1..Len(all_start) }

\* the divider is pending at the Python index i of description when only
\* the lines that satisfy Sets set it: such a line comes before i, with no
\* section opened in between
Pending(i, Sets(_)) ==
    \E d \in 0..(i - 1) : Sets(d) /\ \A s \in Starts : ~(d < s /\ s < i)

\* the line at the Python index d of description is the divider
ExactDivider(d) == description[d + 1] = DIVIDER

\* the line at the Python index d of description holds the divider
SubstringDivider(d) == Contains(DIVIDER, description[d + 1])

(* C28.  Only a line equal to the divider '#------------------------' sets *)
(* the pending divider of the section indexer; a line that holds it as a   *)
(* substring (a longer run of dashes) does not, so a recognized heading    *)
(* that follows such a line opens no section.                              *)
C28_OnlyExactDivider ==
    pc = "ready" =>
        Starts = { i \in 0..(Len(description) - 1) :
                     Recognized(description[i + 1]) /\ Pending(i, ExactDivider) }

(* C28 as the program has it.  Every line that holds the divider           *)
(* '#------------------------' as a substring (the divider itself, a       *)
(* longer run of dashes) sets the pending divider of the section indexer,  *)
(* and no other line does, so a recognized heading that follows a longer   *)
(* run of dashes opens a section.                                          *)
C28_SubstringDivider ==
    pc = "ready" =>
        Starts = { i \in 0..(Len(description) - 1) :
                     Recognized(description[i + 1]) /\ Pending(i, SubstringDivider) }

\* a heading right after a longer run of dashes, with no divider line in
\* the document, has opened a section; one after a shorter run has not
C28_Witness ==
    /\ pc = "ready"
    /\ description = <<"#-----------------------", "# Title",
                       DIVIDER \o "---------------", "# Variables">>
    /\ all_keys = <<"Variables">>
    /\ all_start = <<3>>
    /\ HoldsDivider(2)

-----------------------------------------------------------------------------
\* what the driver uses for the k-th of SwapinColumns, given the table
DriverUsed(chron, k) == IF k = 1 THEN DriverDeltar(chron).deltar ELSE DriverDeltar(chron).error

\* the record at a came by update_deltar, and its columns are the ones of
\* the receiver with the decision of the driver: a column is as it was, or
\* has the estimate with its values kept in the column *_original
AsTheDriverDecides(a) ==
    \A k \in 1..2 :
       IF DriverUsed(ChronAt(heap[a].by.self), k) = None
       THEN Column(ChronAt(a), SwapinColumns[k])
               = Column(ChronAt(heap[a].by.self), SwapinColumns[k])
       ELSE /\ AllCells(a, SwapinColumns[k], DriverUsed(ChronAt(heap[a].by.self), k))
            /\ HasColumn(ChronAt(a), SwapinColumns[k] \o "_original")
            /\ Column(ChronAt(a), SwapinColumns[k] \o "_original")
                  = Column(ChronAt(heap[a].by.self), SwapinColumns[k])

(* C29.  update_deltar decides as the inline logic of the batch driver     *)
(* does, for every chronology table: with more than one distinct delta_R   *)
(* and more than one distinct delta_R_1s_err neither column is replaced;   *)
(* with more than one distinct delta_R and at most one distinct            *)
(* delta_R_1s_err only delta_R_1s_err is replaced by the estimate;         *)
(* otherwise both are replaced; a replaced column has its values in the    *)
(* column *_original.                                                      *)
C29_SameDecisionAsDriver ==
    \A a \in 1..Len(heap) : heap[a].by.op = "update_deltar" => AsTheDriverDecides(a)

\* update_deltar decides as the driver does on the tables in which both
\* columns have more than one distinct value, or both have at most one
SameDecisionWhenCountsAlike ==
    \A a \in 1..Len(heap) :
       /\ heap[a].by.op = "update_deltar"
       /\ (Cardinality(Unique(ChronAt(heap[a].by.self), "delta_R")) > 1)
             = (Cardinality(Unique(ChronAt(heap[a].by.self), "delta_R_1s_err")) > 1)
       => AsTheDriverDecides(a)

-----------------------------------------------------------------------------
RECURSIVE Interleaved(_, _, _)
\* every line of l is in exactly one of a and b, in its order
Interleaved(a, b, l) ==
    IF l = <<>> THEN a = <<>> /\ b = <<>>
    ELSE \/ a # <<>> /\ a[1] = l[1] /\ Interleaved(Tail(a), b, Tail(l))
         \/ b # <<>> /\ b[1] = l[1] /\ Interleaved(a, Tail(b), Tail(l))

(* C30.  For every sequence of lines, also one with empty lines before or  *)
(* after the trigger, _divide_portions completes without raising and puts  *)
(* every line in exactly one of description and data.                      *)
C30_EveryLineDivided ==
    /\ pc # "raised"
    /\ Divided => Interleaved(description, data, lines)

\* C30 for the documents without an empty line
EveryLineDividedWithoutEmptyLine ==
    (\A i \in 1..Len(lines) : lines[i] # "") =>
        /\ pc # "raised"
        /\ Divided => Interleaved(description, data, lines)

====
